---- MODULE Spec2Model ----
(***************************************************************************)
(* Model of the resumable batch updater of src/src/api/update_aspace_prod.py *)
(* (retry decorator, SNAC ARK patch, checkpoint store, batch scheduler).     *)
(***************************************************************************)
EXTENDS Integers, Sequences, FiniteSets, TLC

(***************************************************************************)
(* Bounds of the model.                                                    *)
(***************************************************************************)
MaxRecords == 2
MaxBatchSize == 2
MaxWorkers == 2
MaxCheckpointInterval == 2
MaxRetries == 3
MaxIds == 2
MaxApplications == 3
MaxUrlLen == 5

(***************************************************************************)
(* Strings are sequences of characters, so that Python's substring test    *)
(* (`a in b`), startswith and concatenation are computed, not assumed.     *)
(***************************************************************************)
IsSubstring(s, t) ==
    \E i \in 0..(Len(t) - Len(s)) : SubSeq(t, i + 1, i + Len(s)) = s

RECURSIVE SeqToSet(_)
SeqToSet(s) == IF s = <<>> THEN {} ELSE {Head(s)} \cup SeqToSet(Tail(s))

Min(a, b) == IF a < b THEN a ELSE b

(***************************************************************************)
(* Agent records and identifier entries.                                   *)
(* An agent record is [uri, ids_present, agent_record_identifiers]:        *)
(* ids_present = FALSE is a JSON document without the identifiers key.     *)
(***************************************************************************)
Identifier(src, val) ==
    [primary_identifier |-> FALSE, record_identifier |-> val, source |-> src,
     jsonmodel_type |-> "agent_record_identifier"]

AgentRecord(uri, present, ids) ==
    [uri |-> uri, ids_present |-> present, agent_record_identifiers |-> ids]

SnacCount(agent_data) ==
    Cardinality({i \in 1..Len(agent_data.agent_record_identifiers) :
                    agent_data.agent_record_identifiers[i].source = "snac"})

\* has_snac_ark as a value-only test: the bug of ignoring the source field.
has_snac_ark_value_only(agent_data, snac_ark) ==
    /\ agent_data.ids_present
    /\ agent_data.agent_record_identifiers # <<>>
    /\ \E i \in 1..Len(agent_data.agent_record_identifiers) :
          agent_data.agent_record_identifiers[i].record_identifier = snac_ark

\* has_snac_ark: some entry has source 'snac', or contains the ARK as a substring.
has_snac_ark(agent_data, snac_ark) ==
    /\ agent_data.ids_present
    /\ agent_data.agent_record_identifiers # <<>>
    /\ \E i \in 1..Len(agent_data.agent_record_identifiers) :
          LET identifier == agent_data.agent_record_identifiers[i]
          IN  \/ identifier.source = "snac"
              \/ IsSubstring(snac_ark, identifier.record_identifier)

\* add_snac_ark that forgets the check on a record it has just patched.
add_snac_ark_no_check(agent_data, snac_ark) ==
    [data |-> AgentRecord(agent_data.uri, TRUE,
                  Append(agent_data.agent_record_identifiers,
                         Identifier("snac", snac_ark))),
     status |-> "added"]

\* add_snac_ark: check, then append a new snac identifier entry.
add_snac_ark(agent_data, snac_ark) ==
    IF has_snac_ark(agent_data, snac_ark)
    THEN [data |-> agent_data, status |-> "skipped"]
    ELSE [data |-> AgentRecord(agent_data.uri, TRUE,
                       Append(agent_data.agent_record_identifiers,
                              Identifier("snac", snac_ark))),
          status |-> "added"]

(***************************************************************************)
(* The world the updater runs against: four agents of the remote record    *)
(* system, the secondary (test) cache, and the shapes an input row takes.  *)
(***************************************************************************)
ARK1 == <<"a">>
ApiUrl == "U"
K1 == <<"/", "1">>
K2 == <<"/", "2">>
K3 == <<"/", "3">>
K4 == <<"/", "4">>
Keys == {K1, K2, K3, K4}
NoneUri == <<>>
NoData == AgentRecord(NoneUri, FALSE, <<>>)

\* K1: no identifiers, accepts updates.  K2: already carries the SNAC ARK.
\* K3: not found (404).  K4: no identifiers key at all, rejects every POST.
remote0 ==
    [k \in Keys |->
        CASE k = K1 -> [found |-> TRUE, accept |-> TRUE,
                        data |-> AgentRecord(K1, TRUE, <<>>)]
          [] k = K2 -> [found |-> TRUE, accept |-> TRUE,
                        data |-> AgentRecord(K2, TRUE, <<Identifier("snac", ARK1)>>)]
          [] k = K3 -> [found |-> FALSE, accept |-> FALSE, data |-> NoData]
          [] OTHER  -> [found |-> TRUE, accept |-> FALSE,
                        data |-> AgentRecord(K4, FALSE, <<>>)]]

\* save_to_cache: the file name is the URI with every "/" replaced by "_".
Filename(agent_uri) ==
    [i \in 1..Len(agent_uri) |-> IF agent_uri[i] = "/" THEN "_" ELSE agent_uri[i]]
        \o <<".json">>

NoFile == [exists |-> FALSE, valid |-> FALSE, data |-> NoData]
File(d) == [exists |-> TRUE, valid |-> TRUE, data |-> d]
\* A file that exists and that json.load cannot parse.
CorruptFile == [exists |-> TRUE, valid |-> FALSE, data |-> NoData]

\* Secondary snapshots: K2 has the same ARK, K4 has a snapshot without one.
testCache0 ==
    [f \in {Filename(k) : k \in Keys} |->
        CASE f = Filename(K2) -> File(AgentRecord(K2, TRUE, <<Identifier("snac", ARK1)>>))
          [] f = Filename(K4) -> File(AgentRecord(K4, TRUE, <<>>))
          [] OTHER -> NoFile]

\* Cells of the input table: a string, NaN, or a number read by pandas.
NaN == [kind |-> "nan", v |-> <<>>]
Str(v) == [kind |-> "str", v |-> v]
Num(v) == [kind |-> "num", v |-> v]

Row(primary, fallback, ark) ==
    [original_agent_uri_old_spreadsheet |-> primary,
     aspace_agent_uri_final |-> fallback,
     snac_ark_final |-> ark]

RowKinds ==
    { Row(Str(K1), Str(K2), Str(ARK1)),          \* primary URI wins; fresh record
      Row(NaN, Str(<<" ", "2">>), Str(ARK1)),    \* fallback URI, needs cleaning
      Row(Str(K3), NaN, Str(ARK1)),              \* record does not exist
      Row(Str(<<ApiUrl, "/", "4">>), NaN, Str(ARK1)), \* full URL; POST rejected
      Row(NaN, NaN, Str(ARK1)),                  \* no URI at all
      Row(Str(K1), NaN, NaN),                    \* no ARK
      Row(Num(<<"5">>), NaN, Str(ARK1)) }        \* URI cell is not a string

\* The rows whose record is fetched: the ones a second run can meet again.
ResumeRowKinds ==
    { Row(Str(K1), Str(K2), Str(ARK1)),
      Row(NaN, Str(<<" ", "2">>), Str(ARK1)),
      Row(Str(<<ApiUrl, "/", "4">>), NaN, Str(ARK1)) }

\* pd.isna(x) or not x
IsBlank(cell) == cell.kind = "nan" \/ (cell.kind = "str" /\ cell.v = <<>>)

RECURSIVE LStrip(_)
LStrip(s) == IF s # <<>> /\ Head(s) = " " THEN LStrip(Tail(s)) ELSE s

RECURSIVE RStrip(_)
RStrip(s) ==
    IF s # <<>> /\ s[Len(s)] = " " THEN RStrip(SubSeq(s, 1, Len(s) - 1)) ELSE s

Strip(s) == RStrip(LStrip(s))

\* strip(), drop the API base address, ensure a leading slash (lines 452-459)
CleanUri(raw) ==
    LET stripped == Strip(raw)
        relative == SelectSeq(stripped, LAMBDA c : c # ApiUrl)
    IN  IF relative # <<>> /\ Head(relative) = "/" THEN relative
        ELSE <<"/">> \o relative

(***************************************************************************)
(* Comparator and the Record Mutator's pure parts.                         *)
(***************************************************************************)
\* The loop without its break: the last identifier with source 'snac'.
LastSnac(agent_data) ==
    LET ids == agent_data.agent_record_identifiers
        hits == {i \in 1..Len(ids) : ids[i].source = "snac"}
    IN  IF hits = {} THEN 0 ELSE CHOOSE i \in hits : \A j \in hits : i >= j

\* First identifier with source 'snac' (the loop with break), 0 if none.
FirstSnac(agent_data) ==
    LET ids == agent_data.agent_record_identifiers
        hits == {i \in 1..Len(ids) : ids[i].source = "snac"}
    IN  IF hits = {} THEN 0 ELSE CHOOSE i \in hits : \A j \in hits : i <= j

compare_with_test_cache(agent_uri, prod_data, test_cache) ==
    LET f == Filename(agent_uri) IN
    IF f \notin DOMAIN test_cache \/ ~test_cache[f].exists THEN "no_test_data"
    ELSE IF ~test_cache[f].valid THEN "error"
    ELSE LET test_data == test_cache[f].data
             p == FirstSnac(prod_data)
             t == FirstSnac(test_data)
         IN  CASE p # 0 /\ t # 0 ->
                    IF prod_data.agent_record_identifiers[p].record_identifier
                         = test_data.agent_record_identifiers[t].record_identifier
                    THEN "match" ELSE "mismatch"
               [] p # 0 /\ t = 0 -> "prod_only"
               [] p = 0 /\ t # 0 -> "test_only"
               [] OTHER -> "no_snac"

Outcome(uri, name, status, ark_status, compare_status, message) ==
    [agent_uri |-> uri, agent_name |-> name, status |-> status,
     ark_status |-> ark_status, compare_status |-> compare_status,
     message |-> message]

\* The resolution with the two URI columns exchanged: the fallback column
\* is preferred.
ResolveRowFallbackFirst(row, name) ==
    LET fallback == row.aspace_agent_uri_final
        cell == IF IsBlank(fallback) THEN row.original_agent_uri_old_spreadsheet
                ELSE fallback
    IN  IF IsBlank(cell)
        THEN [early |-> TRUE, agent_uri |-> NoneUri,
              outcome |-> Outcome(NoneUri, name, "error", "none", "none",
                                  "No valid agent URI found")]
        ELSE IF cell.kind # "str"
        THEN [early |-> TRUE, agent_uri |-> cell.v,
              outcome |-> Outcome(cell.v, name, "error", "none", "none",
                                  "Unexpected error")]
        ELSE LET agent_uri == CleanUri(cell.v) IN
             IF IsBlank(row.snac_ark_final)
             THEN [early |-> TRUE, agent_uri |-> agent_uri,
                   outcome |-> Outcome(agent_uri, name, "error", "none", "none",
                                       "No SNAC ARK found")]
             ELSE [early |-> FALSE, agent_uri |-> agent_uri,
                   outcome |-> Outcome(agent_uri, name, "error", "none", "none",
                                       "Failed to retrieve agent")]

\* process_agent, lines 438-468: resolve the identity key and the ARK.
\* Returns either a final Outcome (early), or the cleaned URI to fetch
\* together with the Outcome reported when the fetch fails (lines 470-479).
ResolveRow(row, name) ==
    LET primary == row.original_agent_uri_old_spreadsheet
        cell == IF IsBlank(primary) THEN row.aspace_agent_uri_final ELSE primary
    IN  IF IsBlank(cell)
        THEN [early |-> TRUE, agent_uri |-> NoneUri,
              outcome |-> Outcome(NoneUri, name, "error", "none", "none",
                                  "No valid agent URI found")]
        ELSE IF cell.kind # "str"
        THEN \* .strip() raises AttributeError: the outer except reports it
             [early |-> TRUE, agent_uri |-> cell.v,
              outcome |-> Outcome(cell.v, name, "error", "none", "none",
                                  "Unexpected error")]
        ELSE LET agent_uri == CleanUri(cell.v) IN
             IF IsBlank(row.snac_ark_final)
             THEN [early |-> TRUE, agent_uri |-> agent_uri,
                   outcome |-> Outcome(agent_uri, name, "error", "none", "none",
                                       "No SNAC ARK found")]
             ELSE [early |-> FALSE, agent_uri |-> agent_uri,
                   outcome |-> Outcome(agent_uri, name, "error", "none", "none",
                                       "Failed to retrieve agent")]

\* get_agent_record after its retries: the record, or a failure.
get_agent_record(world, agent_uri) ==
    IF agent_uri \in DOMAIN world /\ world[agent_uri].found
    THEN [ok |-> TRUE, data |-> world[agent_uri].data]
    ELSE [ok |-> FALSE, data |-> NoData]

\* process_agent without the "or no_update" of line 492.
AfterFetchIgnoresDryRun(name, agent_uri, snac_ark, agent_data, dry_run, test_cache) ==
    LET patch == add_snac_ark(agent_data, snac_ark)
        compare_status == compare_with_test_cache(agent_uri, agent_data, test_cache)
        post_uri == IF agent_data.uri # <<>> THEN agent_data.uri ELSE agent_uri
    IN  IF patch.status = "skipped"
        THEN [final |-> TRUE, updated_data |-> patch.data, post_uri |-> agent_uri,
              compare_status |-> compare_status,
              outcome |-> Outcome(agent_uri, name, "success", patch.status,
                                  compare_status, "SNAC ARK already exists")]
        ELSE [final |-> FALSE, updated_data |-> patch.data, post_uri |-> post_uri,
              compare_status |-> compare_status,
              outcome |-> Outcome(post_uri, name, "pending", "added", compare_status,
                                  "pending")]

\* The comparison made on the record after the patch instead of the copy
\* taken before it.
AfterFetchComparesPatched(name, agent_uri, snac_ark, agent_data, dry_run, test_cache) ==
    LET original_data == agent_data
        patch == add_snac_ark(agent_data, snac_ark)
        compare_status == compare_with_test_cache(agent_uri, patch.data, test_cache)
    IN  IF patch.status = "skipped" \/ dry_run
        THEN [final |-> TRUE, updated_data |-> patch.data, post_uri |-> agent_uri,
              compare_status |-> compare_status,
              outcome |-> Outcome(agent_uri, name,
                                  IF patch.status = "skipped" THEN "success" ELSE "no_update",
                                  patch.status, compare_status,
                                  IF patch.status = "skipped"
                                  THEN "SNAC ARK already exists" ELSE "SNAC ARK added")]
        ELSE LET post_uri == IF original_data.uri # <<>> THEN original_data.uri
                             ELSE agent_uri
             IN  [final |-> FALSE, updated_data |-> patch.data, post_uri |-> post_uri,
                  compare_status |-> compare_status,
                  outcome |-> Outcome(post_uri, name, "pending", "added", compare_status,
                                      "pending")]

\* process_agent, lines 481-511: patch, compare, decide whether to submit.
AfterFetch(name, agent_uri, snac_ark, agent_data, dry_run, test_cache) ==
    LET original_data == agent_data
        patch == add_snac_ark(agent_data, snac_ark)
        compare_status == compare_with_test_cache(agent_uri, original_data, test_cache)
    IN  IF patch.status = "skipped" \/ dry_run
        THEN [final |-> TRUE, updated_data |-> patch.data, post_uri |-> agent_uri,
              compare_status |-> compare_status,
              outcome |-> Outcome(agent_uri, name,
                                  IF patch.status = "skipped" THEN "success" ELSE "no_update",
                                  patch.status, compare_status,
                                  IF patch.status = "skipped"
                                  THEN "SNAC ARK already exists" ELSE "SNAC ARK added")]
        ELSE LET post_uri == IF original_data.uri # <<>> THEN original_data.uri
                             ELSE agent_uri
             IN  [final |-> FALSE, updated_data |-> patch.data, post_uri |-> post_uri,
                  compare_status |-> compare_status,
                  outcome |-> Outcome(post_uri, name, "pending", "added", compare_status,
                                      "pending")]

\* The inner try/except of update_agent_record: does a failed POST raise
\* out of the function body (and so reach the retry decorator)?
update_agent_record_raises(accepted) == FALSE

\* Number of POST requests one update_agent_record call issues (3 attempts
\* of the decorator when the body raises every time).
PostRequests(accepted) == IF update_agent_record_raises(accepted) THEN 3 ELSE 1

\* process_agent, lines 513-539: the Outcome after the submit.
AfterPost(pending, accepted) ==
    IF accepted
    THEN [pending EXCEPT !.status = "success", !.ark_status = "added",
                         !.message = "SNAC ARK added and record updated"]
    ELSE [pending EXCEPT !.status = "error", !.ark_status = "failed",
                         !.message = "Failed to update record"]

(***************************************************************************)
(* Checkpoint Store: the JSON file is a sequence of tokens, written front  *)
(* to back; json.load accepts only a complete object.                      *)
(***************************************************************************)
Absent == [exists |-> FALSE, tokens |-> <<>>]

\* A checkpoint whose record count is not one more than its 0-based index.
SerializeCountIsIndex(last_processed_index, processed_uris) ==
    <<  <<"{">>,
        <<"last_processed_index", last_processed_index>>,
        <<"timestamp">>,
        <<"processed_records", last_processed_index>> >>
    \o (IF processed_uris # {} THEN << <<"processed_uris", processed_uris>> >> ELSE <<>>)
    \o << <<"}">> >>

\* json.dump(checkpoint_data) of save_checkpoint, lines 348-358
Serialize(last_processed_index, processed_uris) ==
    <<  <<"{">>,
        <<"last_processed_index", last_processed_index>>,
        <<"timestamp">>,
        <<"processed_records", last_processed_index + 1>> >>
    \o (IF processed_uris # {} THEN << <<"processed_uris", processed_uris>> >> ELSE <<>>)
    \o << <<"}">> >>

WellFormed(tokens) ==
    /\ Len(tokens) >= 2
    /\ tokens[1][1] = "{"
    /\ tokens[Len(tokens)][1] = "}"
    /\ \A i \in 2..(Len(tokens) - 1) : tokens[i][1] \notin {"{", "}"}

Field(tokens, name) == {i \in 2..(Len(tokens) - 1) : tokens[i][1] = name}

\* load_checkpoint, lines 369-383: None when the file is absent or unparsable.
load_checkpoint(file) ==
    IF file.exists /\ WellFormed(file.tokens)
    THEN LET idx == Field(file.tokens, "last_processed_index")
             uris == Field(file.tokens, "processed_uris")
             recs == Field(file.tokens, "processed_records")
         IN  [loaded |-> TRUE,
              processed_records |->
                  IF recs # {} THEN file.tokens[CHOOSE i \in recs : TRUE][2] ELSE 0,
              has_index |-> idx # {},
              last_processed_index |->
                  IF idx # {} THEN file.tokens[CHOOSE i \in idx : TRUE][2] ELSE 0,
              has_uris |-> uris # {},
              processed_uris |->
                  IF uris # {} THEN file.tokens[CHOOSE i \in uris : TRUE][2] ELSE {}]
    ELSE [loaded |-> FALSE, processed_records |-> 0,
          has_index |-> FALSE, last_processed_index |-> 0,
          has_uris |-> FALSE, processed_uris |-> {}]

(***************************************************************************)
(* Result Aggregator: the fold of lines 685-711.                           *)
(***************************************************************************)
ComparisonKeys ==
    {"match", "mismatch", "prod_only", "test_only", "no_snac", "no_test_data", "error"}

EmptyResults ==
    [total |-> 0, success |-> 0, error |-> 0, no_update |-> 0,
     arks |-> [added |-> 0, skipped |-> 0],
     comparison |-> [c \in ComparisonKeys |-> 0],
     details |-> <<>>, start_index |-> 0, processed_uris |-> {}]

\* A fold that keeps only the Outcomes of records that did not fail.
FoldOneDropsErrors(res, result) ==
    IF result.status = "error" THEN res
    ELSE [res EXCEPT !.details = Append(@, result),
                     !.success = IF result.status = "success" THEN @ + 1 ELSE @,
                     !.no_update = IF result.status = "no_update" THEN @ + 1 ELSE @]

\* The fold without its else branch: an Outcome that is neither a success
\* nor a no_update is listed but not counted.
FoldOneErrorsUncounted(res, result) ==
    [res EXCEPT
        !.details = Append(@, result),
        !.processed_uris =
            IF result.agent_uri # NoneUri THEN @ \cup {result.agent_uri} ELSE @,
        !.success = IF result.status = "success" THEN @ + 1 ELSE @,
        !.arks = IF result.status = "success" /\ result.ark_status = "added"
                 THEN [@ EXCEPT !.added = @ + 1]
                 ELSE IF result.status = "success" /\ result.ark_status = "skipped"
                 THEN [@ EXCEPT !.skipped = @ + 1]
                 ELSE @,
        !.no_update = IF result.status = "no_update" THEN @ + 1 ELSE @,
        !.comparison =
            IF result.compare_status \in ComparisonKeys
            THEN [@ EXCEPT ![result.compare_status] = @ + 1] ELSE @]

\* lines 686-711: one Outcome folded into the results
FoldOne(res, result) ==
    [res EXCEPT
        !.details = Append(@, result),
        !.processed_uris =
            IF result.agent_uri # NoneUri THEN @ \cup {result.agent_uri} ELSE @,
        !.success = IF result.status = "success" THEN @ + 1 ELSE @,
        !.arks = IF result.status = "success" /\ result.ark_status = "added"
                 THEN [@ EXCEPT !.added = @ + 1]
                 ELSE IF result.status = "success" /\ result.ark_status = "skipped"
                 THEN [@ EXCEPT !.skipped = @ + 1]
                 ELSE @,
        !.no_update = IF result.status = "no_update" THEN @ + 1 ELSE @,
        !.error = IF result.status \notin {"success", "no_update"} THEN @ + 1 ELSE @,
        !.comparison =
            IF result.compare_status \in ComparisonKeys
            THEN [@ EXCEPT ![result.compare_status] = @ + 1] ELSE @]

RECURSIVE Fold(_, _)
Fold(res, batch) ==
    IF batch = <<>> THEN res ELSE Fold(FoldOne(res, Head(batch)), Tail(batch))

(***************************************************************************)
(* State.                                                                  *)
(*   rows            the input table (offset o is rows[o + 1])             *)
(*   cfg             batch_size, num_workers, checkpoint_interval, no_update*)
(*   remote, cache   the remote record system and the on-disk cache        *)
(*   ckptFile        the checkpoint file of the environment                *)
(*   run, pc         which run of the program, and where it is             *)
(*   fut             the futures of process_batch, by input offset         *)
(*   results         the results dictionary of update_aspace_prod          *)
(*   saving          the tokens save_checkpoint has still to write         *)
(*   hist            history (requests issued, Outcomes returned, resumes) *)
(*   rt, ak          state of the retry and add_snac_ark harnesses         *)
(*   hx              state of the harnesses of the other functions         *)
(***************************************************************************)
VARIABLES rows, cfg, remote, cache, ckptFile, run, pc, auto_resume, session,
          start_index, total_records, batch_num, fut, batch_results, results,
          saving, hist, rt, ak, hx

vars == <<rows, cfg, remote, cache, ckptFile, run, pc, auto_resume, session,
          start_index, total_records, batch_num, fut, batch_results, results,
          saving, hist, rt, ak, hx>>

schedVars == <<rows, cfg, remote, cache, ckptFile, run, pc, auto_resume, session,
               start_index, total_records, batch_num, fut, batch_results, results,
               saving, hist>>

RefreshEvery == 100

HxIdle == [fn |-> "none"]

\* main, lines 914-918: results['details'] written as the results CSV.
ResultsExport(r, details) == [run |-> r, details |-> details]

NoOutcome == Outcome(NoneUri, 0, "none", "none", "none", "none")
NoFuture == [st |-> "none", outcome |-> NoOutcome, updated_data |-> NoData,
             post_uri |-> NoneUri]
NotSaving == [active |-> FALSE, tokens |-> <<>>]
NoCheckpoint == load_checkpoint(Absent)

UpdatedName(agent_uri) == Filename(agent_uri \o <<"_updated">>)
CacheNames == {Filename(k) : k \in Keys} \cup {UpdatedName(k) : k \in Keys}

Offsets == 0..(Len(rows) - 1)

\* The batch taken from the whole table: the slice of line 642 forgotten.
BatchOffsetsUnsliced(bn) ==
    LET start_idx == bn * cfg.batch_size
        end_idx == Min(start_idx + cfg.batch_size, total_records)
    IN  {i : i \in start_idx..(end_idx - 1)}

\* Only full batches: the rows left over after the last full batch are
\* never dispatched.
BatchOffsetsFullOnly(bn) ==
    LET start_idx == bn * cfg.batch_size
    IN  IF start_idx + cfg.batch_size > total_records THEN {}
        ELSE {start_index + i : i \in start_idx..(start_idx + cfg.batch_size - 1)}

\* The input offsets of batch number bn: rows start_idx..end_idx-1 of the
\* table sliced at start_index (lines 642, 674-676).
BatchOffsets(bn) ==
    LET start_idx == bn * cfg.batch_size
        end_idx == Min(start_idx + cfg.batch_size, total_records)
    IN  {start_index + i : i \in start_idx..(end_idx - 1)}

\* process_batch returning as soon as every task was picked up by a thread.
BatchStarted(futures, offs) == \A o \in offs : futures[o].st \in {"posting", "done"}

\* process_batch returns when as_completed has yielded every future and the
\* executor's with-block has exited (lines 554-573).
BatchComplete(futures, offs) == \A o \in offs : futures[o].st = "done"

\* The cadence counted on the 1-based ordinal: no checkpoint in the first batch.
CheckpointDueOneBased(bn, interval, total, size) ==
    (bn + 1) % interval = 0 \/ bn = total \div size

\* line 723
CheckpointDue(bn, interval, total, size) ==
    bn % interval = 0 \/ bn = total \div size

\* The starting offset without the "+ 1": the last record is done again.
StartIndexOffByOne(resume, checkpoint) ==
    IF resume /\ checkpoint.loaded THEN checkpoint.last_processed_index ELSE 0

\* lines 619-623: start_index = checkpoint.get('last_processed_index', 0) + 1
StartIndex(resume, checkpoint) ==
    IF resume /\ checkpoint.loaded THEN checkpoint.last_processed_index + 1 ELSE 0

SchedInit(kinds) ==
    /\ rows \in UNION {[1..n -> kinds] : n \in 1..MaxRecords}
    /\ cfg \in [batch_size : 1..MaxBatchSize, num_workers : 1..MaxWorkers,
                checkpoint_interval : 1..MaxCheckpointInterval,
                no_update : BOOLEAN]
    /\ remote = remote0
    /\ cache = [f \in CacheNames |-> NoFile]
    /\ ckptFile = Absent
    /\ run = 1
    /\ pc = "start"
    /\ auto_resume = FALSE
    /\ session = 0
    /\ start_index = 0
    /\ total_records = 0
    /\ batch_num = 0
    /\ fut = [o \in Offsets |-> NoFuture]
    /\ batch_results = <<>>
    /\ results = EmptyResults
    /\ saving = NotSaving
    /\ hist = [fetched |-> {}, events |-> {}, resume |-> <<>>, ends |-> <<>>,
               prior |-> NoCheckpoint, exports |-> <<>>, writes |-> <<>>, failed |-> <<>>]

\* update_aspace_prod, lines 588-650: session, checkpoint, starting offset.
RunInit ==
    /\ pc = "start"
    /\ \E login_ok \in BOOLEAN :
          IF ~login_ok
          THEN /\ pc' = "aborted"
               /\ UNCHANGED <<session, start_index, total_records, results, hist>>
          ELSE LET checkpoint == load_checkpoint(ckptFile)
                   resumed == auto_resume /\ checkpoint.loaded
                   si == StartIndex(auto_resume, checkpoint)
                   uris == IF resumed /\ checkpoint.has_uris
                           THEN checkpoint.processed_uris ELSE {}
               IN  /\ session' = session + 1
                   /\ start_index' = si
                   /\ hist' = [hist EXCEPT
                         !.resume = Append(@, [resumed |-> resumed,
                                               checkpoint |-> checkpoint,
                                               processed_uris |-> uris]),
                         !.exports = IF si > 0 /\ si >= Len(rows)
                                     THEN Append(@, ResultsExport(run, <<>>)) ELSE @]
                   /\ IF si > 0 /\ si >= Len(rows)
                      THEN /\ total_records' = 0
                           /\ results' = [EmptyResults EXCEPT !.processed_uris = uris]
                           /\ pc' = "done"
                      ELSE /\ total_records' = Len(rows) - si
                           /\ results' = [EmptyResults EXCEPT
                                             !.processed_uris = uris,
                                             !.total = Len(rows) - si,
                                             !.start_index = si]
                           /\ pc' = "loop"
    /\ batch_num' = 0
    /\ UNCHANGED <<rows, cfg, remote, cache, ckptFile, run, auto_resume, fut,
                   batch_results, saving, rt, ak, hx>>

\* process_batch, lines 554-558: submit one future per row of the batch.
DispatchBatch ==
    /\ pc = "loop"
    /\ batch_num * cfg.batch_size < total_records
    /\ fut' = [o \in Offsets |->
                 IF o \in BatchOffsets(batch_num)
                 THEN [NoFuture EXCEPT !.st = "pending"] ELSE fut[o]]
    /\ batch_results' = <<>>
    /\ pc' = "wait"
    /\ UNCHANGED <<rows, cfg, remote, cache, ckptFile, run, auto_resume, session,
                   start_index, total_records, batch_num, results, saving, hist,
                   rt, ak, hx>>

\* No deep copy: original_data is the very object add_snac_ark appended to.
original_data_aliased(agent_data, updated_data) == updated_data

\* line 482: the deep copy of the fetched record, taken before add_snac_ark
\* appends to agent_data in place.
original_data(agent_data, updated_data) == agent_data

\* save_to_cache, lines 331-342
save_to_cache(files, agent_data, agent_uri) ==
    [files EXCEPT ![Filename(agent_uri)] = File(agent_data)]

Event(o, uri, saw, posts, outcome) ==
    [run |-> run, offset |-> o, uri |-> uri, saw |-> saw, posts |-> posts,
     outcome |-> outcome]

\* A worker thread takes the next queued task while fewer than num_workers
\* earlier tasks are unfinished, and runs process_agent up to the answer of
\* the fetch: early error Outcomes, the cache snapshot, the patch, and the
\* Outcomes that need no submit (lines 434-503).
WorkerFetch(o) ==
    /\ pc = "wait"
    /\ fut[o].st = "pending"
    /\ Cardinality({p \in Offsets : p < o /\ fut[p].st \in {"pending", "posting"}})
          < cfg.num_workers
    /\ LET row == rows[o + 1]
           r == ResolveRow(row, o)
           g == get_agent_record(remote, r.agent_uri)
           a == AfterFetch(o, r.agent_uri, row.snac_ark_final.v, g.data,
                           cfg.no_update, testCache0)
           finished == r.early \/ ~g.ok \/ a.final
           result == IF r.early \/ ~g.ok THEN r.outcome ELSE a.outcome
           saw == IF r.early \/ ~g.ok THEN 0 - 1
                  ELSE Len(g.data.agent_record_identifiers)
       IN  /\ cache' = IF ~r.early /\ g.ok
                       THEN save_to_cache(cache, original_data(g.data, a.updated_data),
                                          r.agent_uri)
                       ELSE cache
           /\ IF finished
              THEN /\ fut' = [fut EXCEPT ![o] = [NoFuture EXCEPT !.st = "done",
                                                                !.outcome = result]]
                   /\ batch_results' = Append(batch_results, result)
                   /\ hist' = [hist EXCEPT
                         !.fetched = IF r.early THEN @ ELSE @ \cup {<<run, o>>},
                         !.events = @ \cup {Event(o, r.agent_uri, saw, 0, result)}]
              ELSE /\ fut' = [fut EXCEPT ![o] = [st |-> "posting", outcome |-> result,
                                                 updated_data |-> a.updated_data,
                                                 post_uri |-> a.post_uri]]
                   /\ batch_results' = batch_results
                   /\ hist' = [hist EXCEPT !.fetched = @ \cup {<<run, o>>}]
    /\ UNCHANGED <<rows, cfg, remote, ckptFile, run, pc, auto_resume, session,
                   start_index, total_records, batch_num, results, saving, rt, ak, hx>>

\* The worker's submit: update_agent_record and lines 513-539.
WorkerPost(o) ==
    /\ pc = "wait"
    /\ fut[o].st = "posting"
    /\ LET k == fut[o].post_uri
           accepted == k \in DOMAIN remote /\ remote[k].found /\ remote[k].accept
           result == AfterPost(fut[o].outcome, accepted)
       IN  /\ remote' = IF accepted
                        THEN [remote EXCEPT ![k].data = fut[o].updated_data]
                        ELSE remote
           /\ cache' = IF accepted
                       THEN [cache EXCEPT ![UpdatedName(k)] =
                                File(AgentRecord(k, FALSE, <<>>))]
                       ELSE cache
           /\ fut' = [fut EXCEPT ![o] = [NoFuture EXCEPT !.st = "done",
                                                        !.outcome = result]]
           /\ batch_results' = Append(batch_results, result)
           /\ hist' = [hist EXCEPT !.events =
                          @ \cup {Event(o, k, Len(fut[o].updated_data.agent_record_identifiers) - 1,
                                        PostRequests(accepted), result)}]
    /\ UNCHANGED <<rows, cfg, ckptFile, run, pc, auto_resume, session,
                   start_index, total_records, batch_num, results, saving, rt, ak, hx>>

\* The refresh cadence applied in every mode.
RefreshDueInEveryMode(bn, no_update) == (bn + 1) % RefreshEvery = 0

\* line 759: if not no_update and (batch_num + 1) % 100 == 0
RefreshDue(bn, no_update) == ~no_update /\ (bn + 1) % RefreshEvery = 0

\* Lines 757-761 and the loop step: proactive session refresh, next batch.
EndIteration ==
    IF RefreshDue(batch_num, cfg.no_update)
    THEN \E login_ok \in BOOLEAN :
            IF login_ok
            THEN session' = session + 1 /\ batch_num' = batch_num + 1 /\ pc' = "loop"
            ELSE pc' = "aborted" /\ UNCHANGED <<session, batch_num>>
    ELSE batch_num' = batch_num + 1 /\ pc' = "loop" /\ UNCHANGED session

\* The index of a checkpoint computed from the batch alone: the position of
\* the batch in the input is forgotten.
AbsoluteIndexWithinBatch(si, start_idx, batch_size_actual) == si + batch_size_actual - 1

\* line 720: absolute_index = start_index + start_idx + batch_size_actual - 1
AbsoluteIndex(si, start_idx, batch_size_actual) == si + start_idx + batch_size_actual - 1

\* Lines 685-733: fold the batch into the results; when a checkpoint is due
\* save_checkpoint opens the file for writing, which truncates it.
FoldBatch ==
    /\ pc = "wait"
    /\ BatchComplete(fut, BatchOffsets(batch_num))
    /\ LET res == Fold(results, batch_results)
           batch_size_actual == Cardinality(BatchOffsets(batch_num))
           start_idx == batch_num * cfg.batch_size
           absolute_index == AbsoluteIndex(start_index, start_idx, batch_size_actual)
       IN  /\ results' = res
           /\  IF CheckpointDue(batch_num, cfg.checkpoint_interval,
                                 total_records, cfg.batch_size)
                THEN /\ ckptFile' = [exists |-> TRUE, tokens |-> <<>>]
                     /\ saving' = [active |-> TRUE,
                                   tokens |-> Serialize(absolute_index, res.processed_uris)]
                     /\ hist' = [hist EXCEPT !.prior = load_checkpoint(ckptFile)]
                     /\ pc' = "saving"
                     /\ UNCHANGED <<session, batch_num>>
                ELSE /\ EndIteration
                     /\ UNCHANGED <<ckptFile, saving, hist>>
    /\ UNCHANGED <<rows, cfg, remote, cache, run, auto_resume, start_index,
                   total_records, fut, batch_results, rt, ak, hx>>

\* save_checkpoint, lines 357-367: json.dump and close complete the file.
SaveCheckpointClose ==
    /\ pc = "saving"
    /\ ckptFile' = [exists |-> TRUE, tokens |-> saving.tokens]
    /\ saving' = NotSaving
    /\ hist' = [hist EXCEPT !.writes =
                  Append(@, [run |-> run, batch_num |-> batch_num,
                             checkpoint |-> load_checkpoint([exists |-> TRUE,
                                                             tokens |-> saving.tokens])])]
    /\ EndIteration
    /\ UNCHANGED <<rows, cfg, remote, cache, run, auto_resume, start_index,
                   total_records, fut, batch_results, results, rt, ak, hx>>

\* save_checkpoint raises while it writes (lines 357-358) and the handler of
\* lines 732-733 logs the error: the file keeps what had reached the disk,
\* the loop goes on.
SaveCheckpointRaises ==
    /\ pc = "saving"
    /\ \E n \in 0..(Len(saving.tokens) - 1) :
          ckptFile' = [exists |-> TRUE, tokens |-> SubSeq(saving.tokens, 1, n)]
    /\ saving' = NotSaving
    /\ hist' = [hist EXCEPT !.failed =
                  Append(@, [run |-> run, batch_num |-> batch_num])]
    /\ EndIteration
    /\ UNCHANGED <<rows, cfg, remote, cache, run, auto_resume, start_index,
                   total_records, fut, batch_results, results, rt, ak, hx>>

\* Lines 763-848: the loop is exhausted, the summary is written and the
\* results are returned to main, which exports them (lines 914-918).
Finish ==
    /\ pc = "loop"
    /\ batch_num * cfg.batch_size >= total_records
    /\ pc' = "done"
    /\ hist' = [hist EXCEPT !.exports = Append(@, ResultsExport(run, results.details))]
    /\ UNCHANGED <<rows, cfg, remote, cache, ckptFile, run, auto_resume, session,
                   start_index, total_records, batch_num, fut, batch_results,
                   results, saving, rt, ak, hx>>

\* The process is interrupted (killed): everything in memory is lost; a
\* checkpoint file being written keeps the prefix that reached the disk.
Crash ==
    /\ pc \in {"loop", "wait", "saving"}
    /\ IF pc = "saving"
       THEN \E n \in 0..(Len(saving.tokens) - 1) :
               ckptFile' = [exists |-> TRUE, tokens |-> SubSeq(saving.tokens, 1, n)]
       ELSE ckptFile' = ckptFile
    /\ hist' = [hist EXCEPT !.ends = Append(@, [how |-> "crashed",
                                                 at |-> pc])]
    /\ pc' = "crashed"
    /\ fut' = [o \in Offsets |-> NoFuture]
    /\ batch_results' = <<>>
    /\ results' = EmptyResults
    /\ saving' = NotSaving
    /\ start_index' = 0
    /\ total_records' = 0
    /\ batch_num' = 0
    /\ UNCHANGED <<rows, cfg, remote, cache, run, auto_resume, session, rt, ak, hx>>

\* The operator starts the program a second time over the same input:
\* with --auto-resume after an interruption, from the start after a
\* completed run.
Restart ==
    /\ pc \in {"crashed", "done"}
    /\ run = 1
    /\ run' = 2
    /\ auto_resume' = (pc = "crashed")
    /\ hist' = IF pc = "crashed" THEN hist
               ELSE [hist EXCEPT !.ends = Append(@, [how |-> pc, at |-> pc])]
    /\ pc' = "start"
    /\ fut' = [o \in Offsets |-> NoFuture]
    /\ batch_results' = <<>>
    /\ results' = EmptyResults
    /\ saving' = NotSaving
    /\ start_index' = 0
    /\ total_records' = 0
    /\ batch_num' = 0
    /\ UNCHANGED <<rows, cfg, remote, cache, ckptFile, session, rt, ak, hx>>

(***************************************************************************)
(* Retry Policy: the wrapper of retry_with_backoff, lines 84-111, around a *)
(* function whose every call returns or raises as the environment decides. *)
(***************************************************************************)
ExcTypes == {"RequestException", "ValueError", "KeyError"}
NoExc == [type |-> "none", call |-> 0]

\* A constant wait instead of the exponential one.
ConstantBackoff(n) == 1

\* line 96: wait_time = 2 ** attempt
RECURSIVE Pow2(_)
Pow2(n) == IF n = 0 THEN 1 ELSE 2 * Pow2(n - 1)

\* An except clause that catches whatever the function raises.
CaughtWhatever(out, allowed) == out # "ok"

\* line 90: except allowed_exceptions as e
Caught(out, allowed) == out \in allowed

\* The off-by-one that skips the re-raise on the last attempt.
LastAttemptOffByOne(attempt, max_retries) == attempt > max_retries - 1

\* line 92: if attempt >= max_retries - 1: raise
LastAttempt(attempt, max_retries) == attempt >= max_retries - 1

RetryIdle ==
    [max_retries |-> 0, allowed |-> {}, has_callback |-> FALSE, attempt |-> 0,
     pc |-> "idle", trace |-> <<>>, waits |-> <<>>, notes |-> <<>>,
     caught |-> NoExc, raised |-> NoExc, returned |-> 0]

RetryInit ==
    \E m \in 0..MaxRetries, allowed \in {{"RequestException", "ValueError"}, ExcTypes},
       cb \in BOOLEAN :
        rt = [RetryIdle EXCEPT !.max_retries = m, !.allowed = allowed,
                               !.has_callback = cb, !.pc = "try"]

\* One pass of the loop body: call func; return its value, let a foreign
\* exception through, re-raise on the last attempt, or go on to back off.
RetryCall ==
    /\ rt.pc = "try"
    /\ rt.attempt < rt.max_retries
    /\ \E out \in {"ok"} \cup ExcTypes :
          LET call == Len(rt.trace) + 1
              e == [type |-> out, call |-> call]
          IN  rt' = [rt EXCEPT
                  !.trace = Append(@, out),
                  !.pc = IF out = "ok" THEN "returned"
                         ELSE IF ~Caught(out, rt.allowed) THEN "raised"
                         ELSE IF LastAttempt(rt.attempt, rt.max_retries) THEN "raised"
                         ELSE "backoff",
                  !.returned = IF out = "ok" THEN call ELSE @,
                  !.raised = IF out # "ok" /\ (~Caught(out, rt.allowed)
                                  \/ LastAttempt(rt.attempt, rt.max_retries))
                             THEN e ELSE @,
                  !.caught = IF out # "ok" THEN e ELSE @]
    /\ UNCHANGED <<schedVars, ak, hx>>

\* Lines 95-107: report the retry, sleep 2 ** attempt, next attempt.
RetryBackoff ==
    /\ rt.pc = "backoff"
    /\ LET wait_time == Pow2(rt.attempt)
       IN  rt' = [rt EXCEPT
                  !.notes = Append(@, [exc |-> rt.caught, attempt |-> rt.attempt,
                                       wait_time |-> wait_time,
                                       by |-> IF rt.has_callback THEN "callback" ELSE "log"]),
                  !.waits = Append(@, wait_time),
                  !.attempt = @ + 1,
                  !.pc = "try"]
    /\ UNCHANGED <<schedVars, ak, hx>>

\* Line 110: the loop ran out without returning or raising.
RetryFallThrough ==
    /\ rt.pc = "try"
    /\ rt.attempt >= rt.max_retries
    /\ rt' = [rt EXCEPT !.pc = "returned", !.returned = 0]
    /\ UNCHANGED <<schedVars, ak, hx>>

(***************************************************************************)
(* add_snac_ark applied again and again to one agent record.               *)
(***************************************************************************)
IdSources == {"snac", "viaf"}
ArkValues == {<<>>, <<"a">>, <<"b">>, <<"a", "b">>}
IdEntries == {Identifier(src, val) : src \in IdSources, val \in ArkValues}
ArkRecords ==
    {AgentRecord(K1, FALSE, <<>>)} \cup
    {AgentRecord(K1, TRUE, ids) : ids \in UNION {[1..n -> IdEntries] : n \in 0..MaxIds}}

ArkIdle ==
    [rec |-> NoData, prev |-> NoData, ark |-> <<"-">>, prev_ark |-> <<"-">>,
     status |-> "none", prev_status |-> "none", count |-> 0, snac0 |-> 0]

ArkInit ==
    \E r \in ArkRecords : ak = [ArkIdle EXCEPT !.rec = r, !.prev = r,
                                              !.snac0 = SnacCount(r)]

ApplyAddSnacArk ==
    /\ ak.count < MaxApplications
    /\ \E a \in ArkValues :
          LET r == add_snac_ark(ak.rec, a)
          IN  ak' = [ak EXCEPT !.rec = r.data, !.prev = ak.rec,
                               !.ark = a, !.prev_ark = ak.ark,
                               !.status = r.status, !.prev_status = ak.status,
                               !.count = @ + 1]
    /\ UNCHANGED <<schedVars, rt, hx>>

(***************************************************************************)
(* determine_api_url applied to one configuration.  Addresses are strings  *)
(* over a small alphabet in which the word "test" can be spelled.          *)
(***************************************************************************)
UrlChars == {"t", "e", "s", "x"}
TestWord == <<"t", "e", "s", "t">>
ProdApiUrl == <<"p">>
Urls == UNION {[1..n -> UrlChars] : n \in 0..MaxUrlLen}

\* str.replace("test", ""): every non-overlapping occurrence, left to right.
RECURSIVE RemoveTest(_)
RemoveTest(s) ==
    IF Len(s) < Len(TestWord) THEN s
    ELSE IF SubSeq(s, 1, Len(TestWord)) = TestWord
    THEN RemoveTest(SubSeq(s, Len(TestWord) + 1, Len(s)))
    ELSE <<Head(s)>> \o RemoveTest(Tail(s))

\* determine_api_url, lines 145-171
determine_api_url(config, environment) ==
    IF environment = "production"
    THEN IF config.has_prod_api_url
         THEN [raised |-> FALSE, url |-> config.prod_api_url]
         ELSE IF IsSubstring(TestWord, config.api_url)
         THEN [raised |-> FALSE, url |-> RemoveTest(config.api_url)]
         ELSE [raised |-> FALSE, url |-> config.api_url]
    ELSE [raised |-> FALSE, url |-> config.api_url]

UrlInit ==
    \E has_prod \in BOOLEAN, test_url \in Urls, env \in {"test", "production"} :
        hx = [fn |-> "determine_api_url",
              config |-> [has_prod_api_url |-> has_prod, prod_api_url |-> ProdApiUrl,
                          api_url |-> test_url],
              environment |-> env, pc |-> "call", raised |-> FALSE, url |-> <<>>]

ApplyDetermineApiUrl ==
    /\ hx.fn = "determine_api_url"
    /\ hx.pc = "call"
    /\ LET r == determine_api_url(hx.config, hx.environment)
       IN  hx' = [hx EXCEPT !.pc = "ended", !.raised = r.raised, !.url = r.url]
    /\ UNCHANGED <<schedVars, rt, ak>>

(***************************************************************************)
(* The two decorated requests, get_aspace_session and get_agent_record,    *)
(* under the wrapper of retry_with_backoff, against a remote system that   *)
(* answers each request as it pleases.                                     *)
(***************************************************************************)
\* What one request meets: an HTTP status ("200-" is a 200 whose JSON body
\* has no session token, "204" stands for every other status below 400),
\* or a network failure before any status.
Responses == {"200", "200-", "204", "401", "403", "404", "500", "neterr"}

\* The exception classes involved and their base classes.
Superclasses(exc) ==
    CASE exc = "HTTPError" -> {"HTTPError", "RequestException", "Exception"}
      [] exc = "ConnectionError" -> {"ConnectionError", "RequestException", "Exception"}
      [] exc = "JSONDecodeError" -> {"JSONDecodeError", "ValueError", "Exception"}
      [] exc = "ValueError" -> {"ValueError", "Exception"}
      [] OTHER -> {exc, "Exception"}

\* except allowed_exceptions as e (line 90)
Catches(allowed, exc) == Superclasses(exc) \cap allowed # {}

SessionMaxRetries == 3
SessionAllowed == {"RequestException", "ValueError"}
AgentMaxRetries == 3
AgentAllowed == {"RequestException", "JSONDecodeError", "Exception"}

Returns(value) == [exc |-> "none", value |-> value]
Raises(exc) == [exc |-> exc, value |-> "none"]

\* A login that hands back the session whether or not a token came with it.
get_aspace_session_no_token_check(response) ==
    CASE response = "neterr" -> Raises("ConnectionError")
      [] response \in {"401", "403", "404", "500"} -> Raises("HTTPError")
      [] response = "204" -> Raises("JSONDecodeError")
      [] response = "200-" -> Returns("session without token")
      [] OTHER -> Returns("session")

\* The body of get_aspace_session, lines 190-205, for one login response.
get_aspace_session(response) ==
    CASE response = "neterr" -> Raises("ConnectionError")
      [] response \in {"401", "403", "404", "500"} -> Raises("HTTPError")
      [] response = "204" -> Raises("JSONDecodeError")
      [] response = "200-" -> Raises("ValueError")
      [] OTHER -> Returns("session")

\* The body of get_agent_record, lines 242-252, for one GET response.
get_agent_record_response(response) ==
    CASE response = "neterr" -> Raises("ConnectionError")
      [] response \in {"200", "200-"} -> Returns("record")
      [] response = "404" -> Raises("HTTPError")
      [] response \in {"401", "403", "500"} -> Raises("HTTPError")
      [] OTHER -> Returns("None")

HttpInit ==
    \E f \in {"get_aspace_session", "get_agent_record"} :
        hx = [fn |-> f,
              max_retries |-> IF f = "get_aspace_session" THEN SessionMaxRetries
                              ELSE AgentMaxRetries,
              allowed |-> IF f = "get_aspace_session" THEN SessionAllowed
                          ELSE AgentAllowed,
              attempt |-> 0, pc |-> "try", requests |-> <<>>, waits |-> <<>>,
              exc |-> "none", value |-> "none"]

\* One pass of the wrapper's loop (lines 87-93) around the decorated body,
\* or the return None of line 110 once the loop is exhausted.
DecoratedCall ==
    /\ hx.fn \in {"get_aspace_session", "get_agent_record"}
    /\ hx.pc = "try"
    /\ IF hx.attempt >= hx.max_retries
       THEN hx' = [hx EXCEPT !.pc = "returned", !.value = "None"]
       ELSE \E response \in Responses :
              LET out == IF hx.fn = "get_aspace_session"
                         THEN get_aspace_session(response)
                         ELSE get_agent_record_response(response)
              IN  hx' = [hx EXCEPT
                     !.requests = Append(@, response),
                     !.exc = out.exc,
                     !.value = out.value,
                     !.pc = IF out.exc = "none" THEN "returned"
                            ELSE IF ~Catches(hx.allowed, out.exc) THEN "raised"
                            ELSE IF LastAttempt(hx.attempt, hx.max_retries) THEN "raised"
                            ELSE "backoff"]
    /\ UNCHANGED <<schedVars, rt, ak>>

\* Lines 95-107: sleep 2 ** attempt, next attempt.
DecoratedBackoff ==
    /\ hx.fn \in {"get_aspace_session", "get_agent_record"}
    /\ hx.pc = "backoff"
    /\ hx' = [hx EXCEPT !.waits = Append(@, Pow2(hx.attempt)),
                        !.attempt = @ + 1, !.pc = "try"]
    /\ UNCHANGED <<schedVars, rt, ak>>

(***************************************************************************)
(* compare_with_test_cache applied to one production record and one file   *)
(* of the test cache.                                                      *)
(***************************************************************************)
CompareValues == {<<"a">>, <<"b">>}
CompareEntries == {Identifier(src, val) : src \in IdSources, val \in CompareValues}
CompareRecords ==
    {AgentRecord(K1, FALSE, <<>>)} \cup
    {AgentRecord(K1, TRUE, ids) : ids \in UNION {[1..n -> CompareEntries] : n \in 0..MaxIds}}
TestFiles == {NoFile, CorruptFile} \cup {File(r) : r \in CompareRecords}

CompareInit ==
    \E p \in CompareRecords, t \in TestFiles :
        hx = [fn |-> "compare_with_test_cache", agent_uri |-> K1, prod_data |-> p,
              test_file |-> t, pc |-> "call", verdict |-> "none"]

ApplyCompare ==
    /\ hx.fn = "compare_with_test_cache"
    /\ hx.pc = "call"
    /\ hx' = [hx EXCEPT
                !.pc = "ended",
                !.verdict = compare_with_test_cache(
                                hx.agent_uri, hx.prod_data,
                                [f \in {Filename(hx.agent_uri)} |-> hx.test_file])]
    /\ UNCHANGED <<schedVars, rt, ak>>

(***************************************************************************)
(* Checkpoint Store: save_checkpoint and load_checkpoint over the          *)
(* checkpoint files of the two environments, each of which may be absent,  *)
(* complete, or cut short by an earlier interruption.                      *)
(***************************************************************************)
Environments == {"test", "production"}

\* What a caller may pass as processed_uris: a list of keys, possibly empty,
\* possibly with a key twice.
KeyLists == {<<>>, <<K1>>, <<K2>>, <<K1, K2>>, <<K2, K1>>, <<K1, K1>>}

\* The files a run may find: none, a complete one, or a prefix of one.
FoundFiles ==
    {Absent}
    \cup {[exists |-> TRUE, tokens |-> SubSeq(Serialize(0, {K1}), 1, n)] :
             n \in 0..Len(Serialize(0, {K1}))}

\* save_checkpoint, lines 344-358: checkpoint_{environment}.json is rewritten
\* (the list of keys is written as a JSON array, read back as a set by the
\* caller of load_checkpoint, line 627).
save_checkpoint(files, environment, last_processed_index, processed_uris) ==
    [files EXCEPT ![environment] =
        [exists |-> TRUE,
         tokens |-> Serialize(last_processed_index, SeqToSet(processed_uris))]]

CkptInit ==
    \E files \in [Environments -> FoundFiles] :
        hx = [fn |-> "checkpoint", files |-> files, before |-> files, count |-> 0,
              environment |-> "test", last_processed_index |-> 0,
              processed_uris |-> <<>>]

ApplySaveCheckpoint ==
    /\ hx.fn = "checkpoint"
    /\ hx.count < MaxApplications - 1
    /\ \E env \in Environments, i \in 0..MaxRecords, keys \in KeyLists :
          hx' = [hx EXCEPT
                   !.files = save_checkpoint(hx.files, env, i, keys),
                   !.before = hx.files,
                   !.count = @ + 1,
                   !.environment = env,
                   !.last_processed_index = i,
                   !.processed_uris = keys]
    /\ UNCHANGED <<schedVars, rt, ak>>

(***************************************************************************)
(* The earlier updater, update_aspace.py: update_agent_record checks the   *)
(* record, appends the identifier and submits the record itself, with its  *)
(* own retry loop around the POST.                                         *)
(***************************************************************************)
\* update_aspace.py, line 44
MAX_RETRIES == 3

\* What the POST of each attempt meets: a 2xx answer, or a RequestException
\* (raise_for_status included).
PostAnswers == [1..MAX_RETRIES -> {"ok", "RequestException"}]

\* update_aspace.py, lines 103-107: an entry of source 'snac' with this very value
snac_identifier_exists(agent_data, snac_ark) ==
    /\ agent_data.ids_present
    /\ \E i \in 1..Len(agent_data.agent_record_identifiers) :
          /\ agent_data.agent_record_identifiers[i].source = "snac"
          /\ agent_data.agent_record_identifiers[i].record_identifier = snac_ark

\* update_aspace.py, lines 135-148: the attempts made until the first answer
\* that is not an exception, MAX_RETRIES at most.
PostAttempts(answers) ==
    IF \E k \in 1..MAX_RETRIES : answers[k] = "ok"
    THEN CHOOSE k \in 1..MAX_RETRIES :
            answers[k] = "ok" /\ \A j \in 1..(k - 1) : answers[j] # "ok"
    ELSE MAX_RETRIES

\* update_aspace.py, lines 100-148: update_agent_record. The record is
\* changed in place; submitted lists the bodies of the POST requests.
update_aspace_update_agent_record(agent_data, snac_ark, answers) ==
    IF snac_identifier_exists(agent_data, snac_ark)
    THEN [data |-> agent_data, status |-> "skipped", submitted |-> <<>>]
    ELSE LET updated == AgentRecord(agent_data.uri, TRUE,
                            Append(agent_data.agent_record_identifiers,
                                   Identifier("snac", snac_ark)))
         IN  [data |-> updated,
              status |-> IF \E k \in 1..MAX_RETRIES : answers[k] = "ok"
                         THEN "success" ELSE "failure",
              submitted |-> [k \in 1..PostAttempts(answers) |-> updated]]

LegacyInit ==
    \E r \in ArkRecords :
        hx = [fn |-> "update_aspace.update_agent_record", rec |-> r, prev |-> r,
              ark |-> <<"-">>, status |-> "none", submitted |-> <<>>, count |-> 0]

ApplyUpdateAgentRecord ==
    /\ hx.fn = "update_aspace.update_agent_record"
    /\ hx.count < MaxApplications - 1
    /\ \E a \in ArkValues \ {<<>>}, answers \in PostAnswers :
          LET r == update_aspace_update_agent_record(hx.rec, a, answers)
          IN  hx' = [hx EXCEPT !.rec = r.data, !.prev = hx.rec, !.ark = a,
                               !.status = r.status, !.submitted = r.submitted,
                               !.count = @ + 1]
    /\ UNCHANGED <<schedVars, rt, ak>>

(***************************************************************************)
(* The cache builder, build_aspace_cache.py: get_agent_record with its own *)
(* retry loop around the GET.                                              *)
(***************************************************************************)
\* What one GET of the cache builder meets: the answers of Responses, a
\* 503, or a read timeout (a RequestException that is neither an HTTPError
\* nor a ConnectionError).
CacheResponses == Responses \cup {"503", "timeout"}

\* The loop that backs off on every HTTP error status, 404 and 401/403 too.
cache_get_agent_record_retries_every_status(response, attempt, max_retries) ==
    CASE response \in {"200", "200-"} -> [pc |-> "returned", exc |-> "none"]
      [] response \in {"404", "401", "403", "500", "503"} ->
            [pc |-> IF attempt < max_retries - 1 THEN "backoff" ELSE "raised",
             exc |-> "HTTPError"]
      [] response = "neterr" ->
            [pc |-> IF attempt < max_retries - 1 THEN "backoff" ELSE "raised",
             exc |-> "ConnectionError"]
      [] response = "204" -> [pc |-> "raised", exc |-> "JSONDecodeError"]
      [] OTHER -> [pc |-> "raised", exc |-> "ReadTimeout"]

\* build_aspace_cache.py, lines 115-147: one pass of the loop of
\* get_agent_record, for the answer the GET of this attempt meets.
cache_get_agent_record(response, attempt, max_retries) ==
    CASE response \in {"200", "200-"} -> [pc |-> "returned", exc |-> "none"]
      [] response \in {"404", "401", "403"} -> [pc |-> "raised", exc |-> "HTTPError"]
      [] response \in {"500", "503"} ->
            [pc |-> IF attempt < max_retries - 1 THEN "backoff" ELSE "raised",
             exc |-> "HTTPError"]
      [] response = "neterr" ->
            [pc |-> IF attempt < max_retries - 1 THEN "backoff" ELSE "raised",
             exc |-> "ConnectionError"]
      [] response = "204" -> [pc |-> "raised", exc |-> "JSONDecodeError"]
      [] OTHER -> [pc |-> "raised", exc |-> "ReadTimeout"]

\* build_aspace_cache.py, line 111: max_retries=3, which no caller overrides
CacheMaxRetries == 3

CacheGetInit ==
    hx = [fn |-> "build_aspace_cache.get_agent_record",
          max_retries |-> CacheMaxRetries,
          attempt |-> 0, pc |-> "try", requests |-> <<>>, waits |-> <<>>,
          exc |-> "none"]

\* build_aspace_cache.py, lines 115-147: session.get and what follows it.
CacheGetCall ==
    /\ hx.fn = "build_aspace_cache.get_agent_record"
    /\ hx.pc = "try"
    /\ hx.attempt < hx.max_retries
    /\ \E response \in CacheResponses :
          LET out == cache_get_agent_record(response, hx.attempt, hx.max_retries)
          IN  hx' = [hx EXCEPT !.requests = Append(@, response),
                               !.exc = out.exc, !.pc = out.pc]
    /\ UNCHANGED <<schedVars, rt, ak>>

\* build_aspace_cache.py, lines 128-130 and 136-138: time.sleep(2 ** attempt)
CacheGetBackoff ==
    /\ hx.fn = "build_aspace_cache.get_agent_record"
    /\ hx.pc = "backoff"
    /\ hx' = [hx EXCEPT !.waits = Append(@, Pow2(hx.attempt)),
                        !.attempt = @ + 1, !.pc = "try"]
    /\ UNCHANGED <<schedVars, rt, ak>>

(***************************************************************************)
(* --skip-existing of the cache builder: the keys of the records already   *)
(* cached are recovered from the names of the cache files (save_to_cache   *)
(* of build_aspace_cache.py names them as Filename does) and the input     *)
(* rows that carry one of them are dropped.                                *)
(***************************************************************************)
KeyChars == {"/", "_", "1"}
KeyStrings == UNION {[1..n -> KeyChars] : n \in 1..MaxUrlLen}

\* Path.stem: the file name without its suffix
Stem(filename) == SubSeq(filename, 1, Len(filename) - 1)

\* build_aspace_cache.py, line 450: uri = "/" + filepath.stem.replace("_", "/")
ExistingUri(filename) ==
    <<"/">> \o [i \in 1..Len(Stem(filename)) |->
                  IF Stem(filename)[i] = "_" THEN "/" ELSE Stem(filename)[i]]

\* build_aspace_cache.py, lines 456-462: the rows whose URI columns name no
\* existing key.
SkipExistingFilter(df, existing_uris) ==
    SelectSeq(df, LAMBDA row :
        /\ ~(row.original_agent_uri_old_spreadsheet.kind = "str"
              /\ row.original_agent_uri_old_spreadsheet.v \in existing_uris)
        /\ ~(row.aspace_agent_uri_final.kind = "str"
              /\ row.aspace_agent_uri_final.v \in existing_uris))

\* An input of one row whose record an earlier run has cached under the
\* key of its primary column, or of its fallback column.
SkipInit ==
    \E key \in KeyStrings, primary \in BOOLEAN :
        hx = [fn |-> "skip_existing", key |-> key,
              existing_files |-> {Filename(key)},
              df |-> << IF primary THEN Row(Str(key), NaN, Str(ARK1))
                        ELSE Row(NaN, Str(key), Str(ARK1)) >>,
              pc |-> "call", existing_uris |-> {}]

\* build_aspace_cache.py, lines 446-462
ApplySkipExisting ==
    /\ hx.fn = "skip_existing"
    /\ hx.pc = "call"
    /\ LET existing_uris == {ExistingUri(f) : f \in hx.existing_files}
       IN  hx' = [hx EXCEPT !.pc = "ended",
                            !.existing_uris = existing_uris,
                            !.df = SkipExistingFilter(hx.df, existing_uris)]
    /\ UNCHANGED <<schedVars, rt, ak>>

(***************************************************************************)
(* The submit of process_agent: update_agent_record under its decorator,   *)
(* and the Outcome process_agent makes of what it returns.                 *)
(***************************************************************************)
\* What one POST meets: 200 with the updated record, 200 with a body that
\* is not JSON ("200-"), 201, an error status, a connection that could not
\* be made ("neterr"), or a response lost after the request was delivered.
SubmitAnswers == {"200", "200-", "201", "400", "409", "500", "neterr", "lost"}

\* The answers after which the remote system has stored the record.
Stored == {"200", "200-", "201", "lost"}

\* update_aspace_prod.py, lines 290-296
SubmitMaxRetries == 3
SubmitAllowed == {"RequestException", "JSONDecodeError"}

\* update_agent_record without its except clauses: errors reach the decorator.
update_agent_record_without_handlers(answer) ==
    CASE answer = "200" -> Returns("success")
      [] answer = "200-" -> Raises("JSONDecodeError")
      [] answer = "201" -> Returns("None")
      [] answer \in {"400", "409", "500"} -> Raises("HTTPError")
      [] OTHER -> Raises("ConnectionError")

\* The body of update_agent_record, lines 298-329, for one POST: every
\* exception is caught inside and turned into an "error" result; a 2xx
\* status other than 200 falls off the end of the function (None).
update_agent_record(answer) ==
    CASE answer = "200" -> Returns("success")
      [] answer = "201" -> Returns("None")
      [] OTHER -> Returns("error")

\* The decorator of lines 290-296 around the body: the POST requests made
\* and what reaches process_agent.
RECURSIVE DecoratedSubmit(_, _)
DecoratedSubmit(answers, attempt) ==
    IF attempt >= SubmitMaxRetries
    THEN [exc |-> "none", value |-> "None", posts |-> attempt]
    ELSE LET out == update_agent_record(answers[attempt + 1])
         IN  IF out.exc = "none"
             THEN [exc |-> "none", value |-> out.value, posts |-> attempt + 1]
             ELSE IF ~Catches(SubmitAllowed, out.exc)
                       \/ LastAttempt(attempt, SubmitMaxRetries)
             THEN [exc |-> out.exc, value |-> "none", posts |-> attempt + 1]
             ELSE DecoratedSubmit(answers, attempt + 1)

\* process_agent, lines 511-548: the Outcome made of the submit; the write
\* of the updated record to the cache (line 515) may fail.
SubmitOutcome(pending, submit, save_ok) ==
    IF submit.exc = "none" /\ submit.value = "success" /\ save_ok
    THEN AfterPost(pending, TRUE)
    ELSE IF submit.exc = "none" /\ submit.value = "error"
    THEN AfterPost(pending, FALSE)
    ELSE Outcome(pending.agent_uri, pending.agent_name, "error", "none", "none",
                 "Unexpected error")

SubmitInit ==
    \E answers \in [1..SubmitMaxRetries -> SubmitAnswers] :
        hx = [fn |-> "update_agent_record", answers |-> answers, pc |-> "call",
              posts |-> 0, stored |-> 0,
              submit |-> [exc |-> "none", value |-> "none", posts |-> 0],
              outcome |-> Outcome(K1, 0, "pending", "added", "no_test_data", "none")]

\* process_agent, line 511
ApplySubmit ==
    /\ hx.fn = "update_agent_record"
    /\ hx.pc = "call"
    /\ LET r == DecoratedSubmit(hx.answers, 0)
       IN  hx' = [hx EXCEPT
                    !.pc = "submitted",
                    !.submit = r,
                    !.posts = r.posts,
                    !.stored = Cardinality({k \in 1..r.posts : hx.answers[k] \in Stored})]
    /\ UNCHANGED <<schedVars, rt, ak>>

\* process_agent, lines 513-548
MakeOutcome ==
    /\ hx.fn = "update_agent_record"
    /\ hx.pc = "submitted"
    /\ \E save_ok \in BOOLEAN :
          hx' = [hx EXCEPT !.pc = "ended",
                           !.outcome = SubmitOutcome(hx.outcome, hx.submit, save_ok)]
    /\ UNCHANGED <<schedVars, rt, ak>>

(***************************************************************************)
(* main with --start-index: the input is cut before update_aspace_prod     *)
(* sees it. Records are followed by their offset in the full input        *)
(* (processed; covered is the offset of the last record processed when    *)
(* the checkpoint was written); the batch loop is reduced to its index     *)
(* arithmetic.                                                             *)
(***************************************************************************)
MainInit ==
    \E n \in 1..(MaxRecords + 1), s \in 0..(MaxRecords + 1),
       size \in 1..MaxBatchSize, interval \in 1..MaxCheckpointInterval :
        hx = [fn |-> "main", total_records |-> n, arg_start_index |-> s,
              batch_size |-> size, checkpoint_interval |-> interval,
              pc |-> "main", df_first |-> 0, df_len |-> n, batch_num |-> 0,
              processed |-> {}, covered |-> 0,
              checkpoint |-> [loaded |-> FALSE, last_processed_index |-> 0]]

\* main, lines 884-891: df = df.iloc[args.start_index:], or return 1
MainSlice ==
    /\ hx.fn = "main"
    /\ hx.pc = "main"
    /\ hx' = IF hx.arg_start_index > 0 /\ hx.arg_start_index >= hx.total_records
             THEN [hx EXCEPT !.pc = "exit"]
             ELSE [hx EXCEPT !.pc = "loop",
                             !.df_first = hx.arg_start_index,
                             !.df_len = hx.total_records - hx.arg_start_index]
    /\ UNCHANGED <<schedVars, rt, ak>>

\* update_aspace_prod without auto-resume (start_index = 0, line 618), lines
\* 674-733: one batch of the sliced input and its checkpoint.
MainBatch ==
    /\ hx.fn = "main"
    /\ hx.pc = "loop"
    /\ hx.batch_num * hx.batch_size < hx.df_len
    /\ LET start_idx == hx.batch_num * hx.batch_size
           batch_size_actual == Min(hx.batch_size, hx.df_len - start_idx)
           due == CheckpointDue(hx.batch_num, hx.checkpoint_interval,
                                hx.df_len, hx.batch_size)
       IN  hx' = [hx EXCEPT
                    !.processed = @ \cup {hx.df_first + start_idx + j :
                                             j \in 0..(batch_size_actual - 1)},
                    !.covered = IF due
                                THEN hx.df_first + start_idx + batch_size_actual - 1
                                ELSE @,
                    !.checkpoint =
                        IF due
                        THEN [loaded |-> TRUE,
                              last_processed_index |->
                                  AbsoluteIndex(0, start_idx, batch_size_actual)]
                        ELSE @,
                    !.batch_num = @ + 1]
    /\ UNCHANGED <<schedVars, rt, ak>>

\* lines 763-848 and main, lines 914-924
MainDone ==
    /\ hx.fn = "main"
    /\ hx.pc = "loop"
    /\ hx.batch_num * hx.batch_size >= hx.df_len
    /\ hx' = [hx EXCEPT !.pc = "done"]
    /\ UNCHANGED <<schedVars, rt, ak>>

(***************************************************************************)
(* Specifications.                                                         *)
(***************************************************************************)
\* The scheduler at rest, for the specifications of the two harnesses.
SchedIdle ==
    /\ rows = <<Row(Str(K1), NaN, Str(ARK1))>>
    /\ cfg = [batch_size |-> 1, num_workers |-> 1, checkpoint_interval |-> 1,
              no_update |-> FALSE]
    /\ remote = remote0
    /\ cache = [f \in CacheNames |-> NoFile]
    /\ ckptFile = Absent
    /\ run = 1
    /\ pc = "idle"
    /\ auto_resume = FALSE
    /\ session = 0
    /\ start_index = 0
    /\ total_records = 0
    /\ batch_num = 0
    /\ fut = [o \in Offsets |-> NoFuture]
    /\ batch_results = <<>>
    /\ results = EmptyResults
    /\ saving = NotSaving
    /\ hist = [fetched |-> {}, events |-> {}, resume |-> <<>>, ends |-> <<>>,
               prior |-> NoCheckpoint, exports |-> <<>>, writes |-> <<>>, failed |-> <<>>]

\* Interrupted and restarted runs, over rows that reach the remote system.
Init == SchedInit(ResumeRowKinds) /\ rt = RetryIdle /\ ak = ArkIdle /\ hx = HxIdle

Next ==
    \/ RunInit
    \/ DispatchBatch
    \/ \E o \in Offsets : WorkerFetch(o)
    \/ \E o \in Offsets : WorkerPost(o)
    \/ FoldBatch
    \/ SaveCheckpointClose
    \/ Finish
    \/ Crash
    \/ Restart

Spec == Init /\ [][Next]_vars

\* One uninterrupted run, over every kind of row.
InitBatch == SchedInit(RowKinds) /\ rt = RetryIdle /\ ak = ArkIdle /\ hx = HxIdle

NextBatch ==
    \/ RunInit
    \/ DispatchBatch
    \/ \E o \in Offsets : WorkerFetch(o)
    \/ \E o \in Offsets : WorkerPost(o)
    \/ FoldBatch
    \/ SaveCheckpointClose
    \/ Finish

SpecBatch == InitBatch /\ [][NextBatch]_vars

\* The same runs under the scheduling the program relies on: the loop, the
\* worker threads and the calls they make (fetch, submit, file writes) all
\* go on as long as something is left for them to do.
SpecLive == InitBatch /\ [][NextBatch]_vars /\ WF_vars(NextBatch)

\* The same runs on a disk on which a checkpoint write may fail.
NextSaveFail == NextBatch \/ SaveCheckpointRaises

SpecSaveFail == InitBatch /\ [][NextSaveFail]_vars

InitRetry == SchedIdle /\ RetryInit /\ ak = ArkIdle /\ hx = HxIdle

NextRetry == RetryCall \/ RetryBackoff \/ RetryFallThrough

SpecRetry == InitRetry /\ [][NextRetry]_vars

InitArk == SchedIdle /\ rt = RetryIdle /\ ArkInit /\ hx = HxIdle

NextArk == ApplyAddSnacArk

SpecArk == InitArk /\ [][NextArk]_vars

\* A run long enough to reach the proactive session refresh of line 759:
\* RefreshEvery full batches and up to MaxRecords - 1 further records, with
\* one worker thread (the order of completion within a batch plays no part
\* in the refresh).
InitRefresh ==
    /\ \E size \in 1..MaxBatchSize, extra \in 0..(MaxRecords - 1) :
          /\ rows = [i \in 1..(RefreshEvery * size + extra) |->
                        Row(Str(K1), NaN, Str(ARK1))]
          /\ \E interval \in 1..MaxCheckpointInterval, dry_run \in BOOLEAN :
                cfg = [batch_size |-> size, num_workers |-> 1,
                       checkpoint_interval |-> interval, no_update |-> dry_run]
    /\ remote = remote0
    /\ cache = [f \in CacheNames |-> NoFile]
    /\ ckptFile = Absent
    /\ run = 1
    /\ pc = "start"
    /\ auto_resume = FALSE
    /\ session = 0
    /\ start_index = 0
    /\ total_records = 0
    /\ batch_num = 0
    /\ fut = [o \in Offsets |-> NoFuture]
    /\ batch_results = <<>>
    /\ results = EmptyResults
    /\ saving = NotSaving
    /\ hist = [fetched |-> {}, events |-> {}, resume |-> <<>>, ends |-> <<>>,
               prior |-> NoCheckpoint, exports |-> <<>>, writes |-> <<>>, failed |-> <<>>]
    /\ rt = RetryIdle /\ ak = ArkIdle /\ hx = HxIdle

SpecRefresh == InitRefresh /\ [][NextBatch]_vars

InitHttp == SchedIdle /\ rt = RetryIdle /\ ak = ArkIdle /\ HttpInit

NextHttp == DecoratedCall \/ DecoratedBackoff

SpecHttp == InitHttp /\ [][NextHttp]_vars

InitCompare == SchedIdle /\ rt = RetryIdle /\ ak = ArkIdle /\ CompareInit

NextCompare == ApplyCompare

SpecCompare == InitCompare /\ [][NextCompare]_vars

InitUrl == SchedIdle /\ rt = RetryIdle /\ ak = ArkIdle /\ UrlInit

NextUrl == ApplyDetermineApiUrl

SpecUrl == InitUrl /\ [][NextUrl]_vars

InitCkpt == SchedIdle /\ rt = RetryIdle /\ ak = ArkIdle /\ CkptInit

NextCkpt == ApplySaveCheckpoint

SpecCkpt == InitCkpt /\ [][NextCkpt]_vars

InitLegacy == SchedIdle /\ rt = RetryIdle /\ ak = ArkIdle /\ LegacyInit

NextLegacy == ApplyUpdateAgentRecord

SpecLegacy == InitLegacy /\ [][NextLegacy]_vars

InitCacheGet == SchedIdle /\ rt = RetryIdle /\ ak = ArkIdle /\ CacheGetInit

NextCacheGet == CacheGetCall \/ CacheGetBackoff

SpecCacheGet == InitCacheGet /\ [][NextCacheGet]_vars

InitSkip == SchedIdle /\ rt = RetryIdle /\ ak = ArkIdle /\ SkipInit

NextSkip == ApplySkipExisting

SpecSkip == InitSkip /\ [][NextSkip]_vars

InitSubmit == SchedIdle /\ rt = RetryIdle /\ ak = ArkIdle /\ SubmitInit

NextSubmit == ApplySubmit \/ MakeOutcome

SpecSubmit == InitSubmit /\ [][NextSubmit]_vars

InitMain == SchedIdle /\ rt = RetryIdle /\ ak = ArkIdle /\ MainInit

NextMain == MainSlice \/ MainBatch \/ MainDone

SpecMain == InitMain /\ [][NextMain]_vars

(***************************************************************************)
(* Properties.                                                             *)
(***************************************************************************)
RetryEnded == rt.pc \in {"returned", "raised"}

\* Every call made so far raised an exception of an allowed type.
AlwaysRaisedAllowed == \A i \in 1..Len(rt.trace) : rt.trace[i] \in rt.allowed

\* C1: with max_retries = M >= 1, a function that raises an allowed exception
\* on every call is called exactly M times, and the wrapper ends by raising
\* the exception of the M-th call.
C1_RetryBound ==
    (RetryEnded /\ rt.max_retries >= 1 /\ AlwaysRaisedAllowed) =>
        /\ rt.pc = "raised"
        /\ Len(rt.trace) = rt.max_retries
        /\ rt.raised = [type |-> rt.trace[rt.max_retries], call |-> rt.max_retries]

C1_Witness ==
    /\ rt.pc = "raised"
    /\ rt.max_retries = 3
    /\ Len(rt.trace) = 3
    /\ AlwaysRaisedAllowed
    /\ rt.trace[1] # rt.trace[3]
    /\ rt.raised.call = 3

\* C2: applying add_snac_ark a second time with the same ARK leaves the
\* record as the first application left it, reports "skipped" and appends
\* no identifier entry.
C2_Idempotent ==
    (ak.count >= 2 /\ ak.ark = ak.prev_ark) =>
        /\ ak.rec = ak.prev
        /\ ak.status = "skipped"
        /\ Len(ak.rec.agent_record_identifiers) = Len(ak.prev.agent_record_identifiers)

C2_Witness ==
    /\ ak.count = 2
    /\ ak.ark = ak.prev_ark
    /\ ak.prev_status = "added"
    /\ ak.status = "skipped"
    /\ ak.rec = ak.prev

\* C3: a record that starts with at most one identifier of source "snac"
\* has at most one after any sequence of add_snac_ark applications, with
\* equal or different ARK values.
C3_AtMostOneSnac == ak.snac0 <= 1 => SnacCount(ak.rec) <= 1

C3_Witness ==
    /\ ak.snac0 = 0
    /\ ak.count >= 2
    /\ ak.prev_status = "added"
    /\ ak.ark # ak.prev_ark
    /\ ~IsSubstring(ak.ark, ak.prev_ark)
    /\ SnacCount(ak.rec) = 1

RowKey(o) == ResolveRow(rows[o + 1], o).agent_uri

DistinctKeys == \A o1, o2 \in Offsets : o1 # o2 => RowKey(o1) # RowKey(o2)

FirstRunCrashed == Len(hist.ends) >= 1 /\ hist.ends[1].how = "crashed"

FirstRunCrashedAt(p) == FirstRunCrashed /\ hist.ends[1].at = p

\* The second run found a loadable checkpoint and resumed from it.
SecondRunResumed == run = 2 /\ Len(hist.resume) = 2 /\ hist.resume[2].resumed

ResumedFrom == hist.resume[2].checkpoint.last_processed_index

CompletedInRun(r, o) == \E e \in hist.events : e.run = r /\ e.offset = o

\* C4: a crash during save_checkpoint, while a valid checkpoint exists,
\* leaves a complete, loadable checkpoint file (the old one or the new one).
C4_CheckpointAtomic ==
    (pc = "crashed" /\ hist.ends[Len(hist.ends)].at = "saving" /\ hist.prior.loaded)
        => load_checkpoint(ckptFile).loaded

BatchOf(o) == (o - start_index) \div cfg.batch_size

Begun(o) == fut[o].st \in {"posting", "done"}

\* C5: no record of a later batch has begun process_agent (issued its fetch
\* or returned) while a record of an earlier batch has not returned.
C5_BatchBarrier ==
    \A o1, o2 \in Offsets :
        (o1 >= start_index /\ BatchOf(o1) < BatchOf(o2) /\ Begun(o2))
            => fut[o1].st = "done"

C5_Witness ==
    \E o1, o2 \in Offsets :
        /\ BatchOf(o1) < BatchOf(o2)
        /\ fut[o2].st = "posting"
        /\ fut[o1].st = "done"
        /\ fut[o1].outcome.ark_status \in {"added", "failed"}

\* C6: per-record failures never abort a run whose session acquisition
\* succeeded: the run ends with exactly one Outcome per input record, and
\* only a failed session acquisition, before any record, aborts.
C6_ErrorsDoNotAbort ==
    /\ pc = "done" =>
          /\ Len(results.details) = Len(rows)
          /\ results.total = Len(rows)
          /\ \A o \in Offsets :
                Cardinality({i \in 1..Len(results.details) :
                                results.details[i].agent_name = o}) = 1
    /\ pc = "aborted" => (hist.fetched = {} /\ hist.events = {})

C6_Witness ==
    /\ pc = "done"
    /\ Len(results.details) = 2
    /\ results.details[1].status = "error"
    /\ results.details[1].message \in {"Unexpected error", "Failed to update record",
                                       "Failed to retrieve agent"}
    /\ results.details[1].agent_name = 0
    /\ results.details[2].status = "success"
    /\ results.details[2].ark_status = "added"

C8_ProcessedKeysSkipped ==
    SecondRunResumed =>
        \A o \in Offsets :
            <<2, o>> \in hist.fetched => RowKey(o) \notin hist.resume[2].processed_uris

\* One uninterrupted run over the whole input, record after record.
RECURSIVE UninterruptedRun(_, _, _)
UninterruptedRun(o, world, outcomes) ==
    IF o >= Len(rows) THEN outcomes
    ELSE LET row == rows[o + 1]
             r == ResolveRow(row, o)
             g == get_agent_record(world, r.agent_uri)
             a == AfterFetch(o, r.agent_uri, row.snac_ark_final.v, g.data,
                             cfg.no_update, testCache0)
             accepted == world[a.post_uri].accept
         IN  IF r.early \/ ~g.ok
             THEN UninterruptedRun(o + 1, world, outcomes \cup {r.outcome})
             ELSE IF a.final
             THEN UninterruptedRun(o + 1, world, outcomes \cup {a.outcome})
             ELSE UninterruptedRun(o + 1,
                      IF accepted THEN [world EXCEPT ![a.post_uri].data = a.updated_data]
                      ELSE world,
                      outcomes \cup {AfterPost(a.outcome, accepted)})

OutcomesOfBothRuns == {e.outcome : e \in hist.events}

CheckpointCoversFirstRun ==
    \A e \in hist.events :
        e.run = 1 => (Len(hist.resume) = 2 /\ hist.resume[2].resumed
                       /\ e.offset <= ResumedFrom)

Added(e) == e.outcome.status = "success" /\ e.outcome.ark_status = "added"

\* C10: a record fetched without identifier entries in a live run (the
\* remote system accepting the submit) yields success/added after exactly
\* one submit request; in a later run every row naming that record yields
\* success/skipped and issues no submit request.
C10_AddedThenSkipped ==
    /\ \A e \in hist.events :
          (e.saw = 0 /\ ~cfg.no_update /\ remote0[e.uri].accept)
              => (Added(e) /\ e.posts = 1)
    /\ \A e1, e2 \in hist.events :
          (e1.run = 1 /\ e2.run = 2 /\ e1.uri = e2.uri /\ Added(e1))
              => /\ e2.outcome.status = "success"
                 /\ e2.outcome.ark_status = "skipped"
                 /\ e2.posts = 0

C10_Witness ==
    /\ run = 2 /\ pc = "done" /\ ~auto_resume
    /\ Len(rows) = 1
    /\ \E e1, e2 \in hist.events :
          /\ e1.run = 1 /\ e2.run = 2 /\ e1.uri = e2.uri
          /\ e1.saw = 0 /\ Added(e1) /\ e1.posts = 1
          /\ e2.outcome.ark_status = "skipped" /\ e2.posts = 0

\* The ARK value of the row at input offset o.
RowArk(o) == rows[o + 1].snac_ark_final.v

\* C11: in a dry run (no_update) no submit request is pending or was issued
\* for any record, the remote system is as it was before the run, and every
\* fetched record that lacks the identifier yields status "no_update".
C11_DryRunNoSubmit ==
    cfg.no_update =>
        /\ remote = remote0
        /\ \A o \in Offsets : fut[o].st # "posting"
        /\ \A e \in hist.events :
              /\ e.posts = 0
              /\ (e.saw >= 0 /\ ~has_snac_ark(remote0[e.uri].data, RowArk(e.offset)))
                    => (e.outcome.status = "no_update" /\ e.outcome.ark_status = "added")

C11_Witness ==
    /\ cfg.no_update
    /\ pc = "done"
    /\ \E e \in hist.events : e.saw >= 0 /\ e.outcome.status = "no_update"
    /\ \E e \in hist.events : e.saw >= 0 /\ e.outcome.ark_status = "skipped"

\* The production address is neither configured nor derivable from the
\* test address.
NoProductionAddress ==
    /\ hx.environment = "production"
    /\ ~hx.config.has_prod_api_url
    /\ ~IsSubstring(TestWord, hx.config.api_url)

\* C12: for environment "production" with no production address configured
\* and none derivable, determine_api_url ends with an error and does not
\* return the test address.
C12_NoSilentFallback ==
    (hx.pc = "ended" /\ NoProductionAddress) =>
        (hx.raised /\ hx.url # hx.config.api_url)

\* The run was aborted by a session refresh that failed (a login had
\* succeeded before).
RefreshFailed == pc = "aborted" /\ session >= 1

\* Input offset of the last record of the batch completed last.
LastCompletedIndex ==
    start_index + Min((batch_num + 1) * cfg.batch_size, total_records) - 1

\* C13: when a session refresh fails in the middle of a run, the checkpoint
\* on disk covers the last completed batch and the Outcomes accumulated so
\* far have been exported.
C13_AbortPersistsWork ==
    RefreshFailed =>
        /\ load_checkpoint(ckptFile).loaded
        /\ load_checkpoint(ckptFile).last_processed_index = LastCompletedIndex
        /\ \E i \in 1..Len(hist.exports) :
              hist.exports[i] = ResultsExport(run, results.details)

HttpEnded(f) == hx.fn = f /\ hx.pc \in {"returned", "raised"}

\* C14: a GET of get_agent_record answered 404, 401 or 403 is not repeated:
\* one request is made and the error reaches the caller.
C14_NotFoundNotRetried ==
    (HttpEnded("get_agent_record") /\ hx.requests[1] \in {"404", "401", "403"}) =>
        (Len(hx.requests) = 1 /\ hx.pc = "raised")

\* C15: a login of get_aspace_session that is rejected (401, 403) or carries
\* no session token is not repeated: one login request is made and the
\* failure reaches the caller.
C15_AuthFailureNotRetried ==
    (HttpEnded("get_aspace_session") /\ hx.requests[1] \in {"401", "403", "200-"}) =>
        (Len(hx.requests) = 1 /\ hx.pc = "raised")

\* C16: get_aspace_session returns only a session whose login response
\* carried a token; when the last login response carried none it ends by
\* raising the ValueError of line 197.
C16_SessionHasToken ==
    HttpEnded("get_aspace_session") =>
        /\ hx.pc = "returned" =>
              (hx.value = "session" /\ hx.requests[Len(hx.requests)] = "200")
        /\ hx.requests[Len(hx.requests)] = "200-" =>
              (hx.pc = "raised" /\ hx.exc = "ValueError")

C16_Witness ==
    /\ hx.fn = "get_aspace_session"
    /\ hx.pc = "raised"
    /\ hx.exc = "ValueError"
    /\ Len(hx.requests) = SessionMaxRetries
    /\ \A i \in 1..Len(hx.requests) : hx.requests[i] = "200-"

\* The fetch of the row at offset o is answered with a record.
FetchSucceeds(o) ==
    /\ ~ResolveRow(rows[o + 1], o).early
    /\ get_agent_record(remote, RowKey(o)).ok

SnapshotOf(o) == cache[Filename(RowKey(o))]

\* C17: the step of process_agent that receives the fetched record writes
\* that record, as the remote system holds it, to the cache under the row's
\* identity key, whatever Outcome follows, and sends no submit in that step;
\* the later submit leaves the snapshot as it is.
C17_SnapshotBeforeSubmit ==
    [][\A o \in Offsets :
          /\ (fut[o].st = "pending" /\ fut'[o].st # "pending" /\ FetchSucceeds(o)) =>
                /\ cache'[Filename(RowKey(o))] = File(remote[RowKey(o)].data)
                /\ remote' = remote
          /\ (fut[o].st = "posting" /\ fut'[o].st = "done") =>
                cache'[Filename(RowKey(o))] = SnapshotOf(o)]_vars

C17_Witness ==
    /\ pc = "done"
    /\ ~cfg.no_update
    /\ \E e \in hist.events :
          /\ e.outcome.ark_status = "failed"
          /\ SnapshotOf(e.offset) = File(remote0[RowKey(e.offset)].data)
    /\ \E e \in hist.events :
          /\ e.outcome.ark_status = "added"
          /\ SnapshotOf(e.offset) = File(remote0[RowKey(e.offset)].data)
          /\ remote[RowKey(e.offset)].data # remote0[RowKey(e.offset)].data

\* The values of the identifiers of source "snac", in record order.
SnacValues(agent_data) ==
    LET snac == SelectSeq(agent_data.agent_record_identifiers,
                          LAMBDA id : id.source = "snac")
    IN  [i \in 1..Len(snac) |-> snac[i].record_identifier]

\* The verdict the claim prescribes for production values P and test values T.
Verdict(P, T) ==
    CASE P # <<>> /\ T # <<>> -> IF Head(P) = Head(T) THEN "match" ELSE "mismatch"
      [] P # <<>> /\ T = <<>> -> "prod_only"
      [] P = <<>> /\ T # <<>> -> "test_only"
      [] OTHER -> "no_snac"

\* C18 as stated: without a snapshot the verdict is no_test_data; with any
\* existing snapshot it is the one of match, mismatch, prod_only, test_only,
\* no_snac that the first snac identifiers of the two sides prescribe.
C18_Verdict ==
    (hx.fn = "compare_with_test_cache" /\ hx.pc = "ended") =>
        hx.verdict = IF ~hx.test_file.exists THEN "no_test_data"
                     ELSE Verdict(SnacValues(hx.prod_data),
                                  SnacValues(hx.test_file.data))

\* C18, amended: the classification holds for a snapshot that can be
\* parsed; a snapshot that exists and cannot be parsed gives "error".
C18_VerdictOfReadableSnapshot ==
    (hx.fn = "compare_with_test_cache" /\ hx.pc = "ended") =>
        hx.verdict = IF ~hx.test_file.exists THEN "no_test_data"
                     ELSE IF ~hx.test_file.valid THEN "error"
                     ELSE Verdict(SnacValues(hx.prod_data),
                                  SnacValues(hx.test_file.data))

C18_Witness ==
    /\ hx.fn = "compare_with_test_cache"
    /\ hx.pc = "ended"
    /\ hx.verdict = "mismatch"
    /\ Len(SnacValues(hx.prod_data)) = 2
    /\ SnacValues(hx.prod_data)[2] = SnacValues(hx.test_file.data)[1]

\* The last_processed_index of the checkpoint save_checkpoint is writing.
IndexBeingWritten == saving.tokens[CHOOSE i \in Field(saving.tokens, "last_processed_index") : TRUE][2]

\* C19: while a checkpoint with last_processed_index X is being written, no
\* record is pending or in progress and every record of the run at an
\* offset up to X has returned its Outcome; every record up to the index of
\* a checkpoint on disk has returned an Outcome in the run that covered it.
C19_CheckpointCoversCompletedRecords ==
    /\ pc = "saving" =>
          /\ \A o \in Offsets : fut[o].st \notin {"pending", "posting"}
          /\ \A o \in start_index..IndexBeingWritten :
                fut[o].st = "done" /\ CompletedInRun(run, o)
    /\ load_checkpoint(ckptFile).loaded =>
          \A o \in 0..load_checkpoint(ckptFile).last_processed_index :
              \E r \in 1..run : CompletedInRun(r, o)

C19_Witness ==
    /\ pc = "saving"
    /\ cfg.batch_size = 2
    /\ cfg.num_workers = 2
    /\ IndexBeingWritten = 1
    /\ \E e \in hist.events : e.offset = 0 /\ e.posts > 0
    /\ \E e \in hist.events : e.offset = 1 /\ e.posts > 0

PrimaryUri(o) == rows[o + 1].original_agent_uri_old_spreadsheet
FallbackUri(o) == rows[o + 1].aspace_agent_uri_final

\* The row at offset o names no record, or no ARK to add.
NothingToApply(o) ==
    \/ IsBlank(PrimaryUri(o)) /\ IsBlank(FallbackUri(o))
    \/ IsBlank(rows[o + 1].snac_ark_final)

\* C20: the step in which process_agent takes up a row uses the primary URI
\* field when it is not empty and the fallback field only when it is; a row
\* with both empty, or with an empty ARK, ends at once with an error Outcome,
\* with no fetch, no cache write and no submit.
C20_KeyResolution ==
    [][\A o \in Offsets :
          (fut[o].st = "pending" /\ fut'[o].st # "pending") =>
              /\ (~IsBlank(PrimaryUri(o)) /\ PrimaryUri(o).kind = "str") =>
                    fut'[o].outcome.agent_uri = CleanUri(PrimaryUri(o).v)
              /\ (IsBlank(PrimaryUri(o)) /\ ~IsBlank(FallbackUri(o))
                     /\ FallbackUri(o).kind = "str") =>
                    fut'[o].outcome.agent_uri = CleanUri(FallbackUri(o).v)
              /\ NothingToApply(o) =>
                    /\ fut'[o].st = "done"
                    /\ fut'[o].outcome.status = "error"
                    /\ hist'.fetched = hist.fetched
                    /\ cache' = cache
                    /\ remote' = remote]_vars

C20_Witness ==
    /\ pc = "done"
    /\ \E e \in hist.events :
          /\ IsBlank(PrimaryUri(e.offset)) /\ ~IsBlank(FallbackUri(e.offset))
          /\ e.saw >= 0
          /\ e.uri = CleanUri(FallbackUri(e.offset).v)
    /\ \E e \in hist.events :
          /\ NothingToApply(e.offset)
          /\ e.outcome.status = "error"
          /\ <<run, e.offset>> \notin hist.fetched

(***************************************************************************)
(* Checkpoint and refresh cadence of the batch loop.                       *)
(***************************************************************************)
\* C21: within one run the last_processed_index values of successive
\* checkpoint writes (hist.writes lists them in the order of writing) are
\* strictly increasing.
C21_CheckpointIndexIncreases ==
    \A i \in 1..(Len(hist.writes) - 1) :
        hist.writes[i].run = hist.writes[i + 1].run =>
            hist.writes[i].checkpoint.last_processed_index
                < hist.writes[i + 1].checkpoint.last_processed_index

C21_Witness ==
    /\ pc = "done"
    /\ cfg.batch_size = 2
    /\ Len(hist.writes) >= 3
    /\ hist.writes[Len(hist.writes)].checkpoint.last_processed_index = Len(rows) - 1
    /\ Len(rows) % 2 = 1

NoWorkerRunning == \A o \in Offsets : fut[o].st \notin {"pending", "posting"}

\* C22: after the first login the session is replaced exactly in the step
\* that ends a batch whose 1-based ordinal is a multiple of RefreshEvery in
\* a live run; it is never replaced in no_update mode, and never while a
\* worker of a batch is pending or running.
C22_RefreshCadence ==
    [][/\ (pc # "start" /\ session' # session) =>
              /\ ~cfg.no_update
              /\ (batch_num + 1) % 100 = 0
              /\ batch_num' = batch_num + 1
              /\ session' = session + 1
              /\ NoWorkerRunning
       /\ (batch_num' = batch_num + 1 /\ ~cfg.no_update
              /\ (batch_num + 1) % 100 = 0) => session' = session + 1
       /\ (pc = "wait" /\ ~NoWorkerRunning) => session' = session]_vars

C22_Witness ==
    /\ pc = "done"
    /\ ~cfg.no_update
    /\ batch_num = 101
    /\ session = 2

\* The batches (0-based) of the current run whose iteration of the loop has
\* ended, or has been cut short by a failed refresh after its checkpoint.
EndedBatches ==
    IF RefreshFailed THEN 0..batch_num ELSE 0..(batch_num - 1)

ResumeOfRun == hist.resume[Len(hist.resume)]

\* C24: a run with auto-resume that finds a checkpoint starts at offset
\* last_processed_index + 1, any other run at offset 0; when the starting
\* offset is positive and not below the number of input records, the run
\* ends at once: no record is processed, no checkpoint is written and the
\* results it returns hold no Outcome and count nothing.
C24_StartingOffset ==
    pc \in {"loop", "wait", "saving", "done"} =>
        /\ Len(hist.resume) = run
        /\ (auto_resume /\ ResumeOfRun.checkpoint.loaded) =>
               start_index = ResumeOfRun.checkpoint.last_processed_index + 1
        /\ (~auto_resume \/ ~ResumeOfRun.checkpoint.loaded) => start_index = 0
        /\ (start_index > 0 /\ start_index >= Len(rows)) =>
               /\ pc = "done"
               /\ \A e \in hist.events : e.run # run
               /\ \A f \in hist.fetched : f[1] # run
               /\ \A i \in 1..Len(hist.writes) : hist.writes[i].run # run
               /\ load_checkpoint(ckptFile) = ResumeOfRun.checkpoint
               /\ results = [EmptyResults EXCEPT
                                !.processed_uris = ResumeOfRun.processed_uris]
               /\ hist.exports[Len(hist.exports)] = ResultsExport(run, <<>>)

C24_Witness ==
    /\ pc = "done"
    /\ run = 2
    /\ auto_resume
    /\ ResumeOfRun.checkpoint.loaded
    /\ ResumeOfRun.checkpoint.last_processed_index = 1
    /\ start_index = 2
    /\ Len(rows) = 2
    /\ results.details = <<>>

(***************************************************************************)
(* Waits and calls of retry_with_backoff.                                  *)
(***************************************************************************)
\* C25: the i-th wait follows the failed attempt i - 1 (0-based), lasts
\* 2^(i-1) seconds and is reported once, by the callback or the log, with
\* the exception of that attempt, the attempt number and the wait; there
\* are never more than max_retries - 1 waits, and a function that fails on
\* every call gets exactly max_retries - 1 of them, none after the last.
C25_BackoffSchedule ==
    /\ Len(rt.notes) = Len(rt.waits)
    /\ \A i \in 1..Len(rt.waits) :
          /\ rt.waits[i] = 2^(i - 1)
          /\ rt.notes[i] = [exc |-> [type |-> rt.trace[i], call |-> i],
                            attempt |-> i - 1,
                            wait_time |-> 2^(i - 1),
                            by |-> IF rt.has_callback THEN "callback" ELSE "log"]
    /\ rt.max_retries >= 1 => Len(rt.waits) <= rt.max_retries - 1
    /\ rt.pc = "try" => Len(rt.waits) = Len(rt.trace)
    /\ (RetryEnded /\ rt.max_retries >= 1 /\ AlwaysRaisedAllowed) =>
          /\ Len(rt.waits) = rt.max_retries - 1
          /\ Len(rt.trace) = Len(rt.waits) + 1

C25_Witness ==
    /\ rt.pc = "raised"
    /\ rt.max_retries = 3
    /\ rt.has_callback
    /\ AlwaysRaisedAllowed
    /\ rt.waits = <<1, 2>>
    /\ rt.notes[2].exc.type = "ValueError"

\* C26: a call that returns ends the wrapper at once with the result of
\* that call (the j-th, after j - 1 caught failures, j <= max_retries), and
\* the function is not called again; a call that raises an exception
\* outside allowed_exceptions is the last one: the exception propagates,
\* after exactly one call when it is the first.
C26_ReturnsFirstSuccess ==
    \A j \in 1..Len(rt.trace) :
        /\ j <= rt.max_retries
        /\ rt.trace[j] = "ok" =>
              /\ j = Len(rt.trace)
              /\ rt.pc = "returned"
              /\ rt.returned = j
              /\ \A i \in 1..(j - 1) : rt.trace[i] \in rt.allowed
        /\ rt.trace[j] \notin rt.allowed \cup {"ok"} =>
              /\ j = Len(rt.trace)
              /\ rt.pc = "raised"
              /\ rt.raised = [type |-> rt.trace[j], call |-> j]
              /\ Len(rt.waits) = j - 1

C26_Witness ==
    /\ rt.pc = "returned"
    /\ rt.max_retries = 3
    /\ rt.trace = <<"RequestException", "ValueError", "ok">>
    /\ rt.returned = 3

(***************************************************************************)
(* Checkpoint round trip.                                                  *)
(***************************************************************************)
\* C27: load_checkpoint(env) after save_checkpoint(env, i, keys) returns
\* last_processed_index i, processed_records i + 1 and, when keys is not
\* empty, processed_uris with the elements of keys (no such field when it
\* is empty); what it returns for the other environment is what it returned
\* before the save; it returns None for an environment whose file does not
\* exist or is not a complete JSON object.
C27_CheckpointRoundTrip ==
    hx.fn = "checkpoint" =>
        /\ hx.count >= 1 =>
              LET loaded == load_checkpoint(hx.files[hx.environment])
              IN  /\ loaded.loaded
                  /\ loaded.has_index
                  /\ loaded.last_processed_index = hx.last_processed_index
                  /\ loaded.processed_records = hx.last_processed_index + 1
                  /\ loaded.has_uris = (hx.processed_uris # <<>>)
                  /\ loaded.processed_uris = SeqToSet(hx.processed_uris)
                  /\ \A env \in Environments \ {hx.environment} :
                        /\ hx.files[env] = hx.before[env]
                        /\ load_checkpoint(hx.files[env]) = load_checkpoint(hx.before[env])
        /\ \A env \in Environments :
              (~hx.files[env].exists
                  \/ hx.files[env].tokens = <<>>
                  \/ hx.files[env].tokens[Len(hx.files[env].tokens)] # <<"}">>)
                 => ~load_checkpoint(hx.files[env]).loaded

C27_Witness ==
    /\ hx.fn = "checkpoint"
    /\ hx.count = 2
    /\ hx.environment = "production"
    /\ hx.last_processed_index = 2
    /\ hx.processed_uris = <<K1, K1>>
    /\ load_checkpoint(hx.files["production"]).processed_uris = {K1}
    /\ load_checkpoint(hx.files["test"]).loaded
    /\ load_checkpoint(hx.files["test"]).last_processed_index = 1
    /\ ~load_checkpoint(hx.before["production"]).loaded
    /\ hx.before["production"].exists

(***************************************************************************)
(* Counters of the Result Aggregator.                                      *)
(***************************************************************************)
\* The number of Outcomes of the detail list with the given status.
Listed(status) ==
    Cardinality({i \in 1..Len(results.details) : results.details[i].status = status})

ComparisonTotal ==
    results.comparison["match"] + results.comparison["mismatch"]
        + results.comparison["prod_only"] + results.comparison["test_only"]
        + results.comparison["no_snac"] + results.comparison["no_test_data"]
        + results.comparison["error"]

\* C28: at every point of the run, and so after each fold, the three
\* status counters add up to the length of the detail list, each counting
\* the Outcomes of its status (error: every other status); arks.added +
\* arks.skipped does not exceed success; and the comparison counters add up
\* to the number of listed Outcomes that carry a comparison verdict.
C28_CountersConsistent ==
    /\ results.success + results.no_update + results.error = Len(results.details)
    /\ results.success = Listed("success")
    /\ results.no_update = Listed("no_update")
    /\ results.error = Listed("error")
    /\ results.arks.added + results.arks.skipped <= results.success
    /\ ComparisonTotal =
          Cardinality({i \in 1..Len(results.details) :
                          results.details[i].compare_status # "none"})

C28_Witness ==
    /\ pc = "done"
    /\ Len(results.details) = 2
    /\ results.error = 1
    /\ results.success = 1
    /\ results.arks.skipped = 1
    /\ ComparisonTotal = 1
    /\ results.comparison["match"] = 1

(***************************************************************************)
(* The already-present test of the two updaters.                           *)
(***************************************************************************)
\* The identifier entries of the record add_snac_ark was applied to.
EntriesBefore ==
    IF ak.prev.ids_present THEN ak.prev.agent_record_identifiers ELSE <<>>

SnacOrContains ==
    \E i \in 1..Len(EntriesBefore) :
        \/ EntriesBefore[i].source = "snac"
        \/ \E k \in 0..Len(EntriesBefore[i].record_identifier) :
              \E n \in k..Len(EntriesBefore[i].record_identifier) :
                  SubSeq(EntriesBefore[i].record_identifier, k + 1, n) = ak.ark

C30_NeverDuplicates ==
    (hx.fn = "update_aspace.update_agent_record" /\ hx.count >= 1
        /\ SnacCount(hx.prev) <= 1) =>
        /\ SnacCount(hx.rec) <= 1
        /\ \A k \in 1..Len(hx.submitted) : SnacCount(hx.submitted[k]) <= 1
        /\ hx.status = "skipped" => hx.submitted = <<>>

(***************************************************************************)
(* The GET of the cache builder.                                           *)
(***************************************************************************)
Transient == {"500", "503", "neterr"}

\* C31: in build_aspace_cache.get_agent_record a GET answered 404, 401 or
\* 403 is the last one and its error is raised; a GET answered by another
\* error status or a connection error is repeated after waits of 1 s, 2 s,
\* ..., at most max_retries GETs being made, and the error of the last is
\* raised; a GET that fails in any other way is the last one.
C31_CacheGetRetries ==
    hx.fn = "build_aspace_cache.get_agent_record" =>
        /\ Len(hx.requests) <= hx.max_retries
        /\ Len(hx.requests) <= 3
        /\ \A i \in 1..Len(hx.waits) :
              hx.waits[i] = 2^(i - 1) /\ hx.requests[i] \in Transient
        /\ \A i \in 1..Len(hx.requests) :
              /\ hx.requests[i] \in {"404", "401", "403"} =>
                    /\ i = Len(hx.requests)
                    /\ hx.pc = "raised"
                    /\ hx.exc = "HTTPError"
              /\ hx.requests[i] \in {"204", "timeout"} =>
                    (i = Len(hx.requests) /\ hx.pc = "raised")
              /\ hx.requests[i] \in {"200", "200-"} =>
                    (i = Len(hx.requests) /\ hx.pc = "returned")
              /\ (hx.requests[i] \in Transient /\ i < hx.max_retries) =>
                    (Len(hx.waits) >= i \/ (i = Len(hx.requests) /\ hx.pc = "backoff"))
              /\ (hx.requests[i] \in Transient /\ i = hx.max_retries) =>
                    /\ hx.pc = "raised"
                    /\ Len(hx.waits) = hx.max_retries - 1
                    /\ hx.exc = IF hx.requests[i] = "neterr"
                                THEN "ConnectionError" ELSE "HTTPError"

C31_Witness ==
    /\ hx.fn = "build_aspace_cache.get_agent_record"
    /\ hx.max_retries = 3
    /\ hx.pc = "raised"
    /\ hx.requests = <<"500", "neterr", "404">>
    /\ hx.waits = <<1, 2>>

(***************************************************************************)
(* --skip-existing.                                                        *)
(***************************************************************************)
\* C32: the key recovered from the name of a cache file is the key that
\* save_to_cache turned into that name, so that --skip-existing drops the
\* row of every record that is already cached.
C32_SkipExistingRoundTrip ==
    (hx.fn = "skip_existing" /\ hx.pc = "ended") =>
        /\ hx.existing_uris = {hx.key}
        /\ hx.df = <<>>

(***************************************************************************)
(* The submit of process_agent.                                            *)
(***************************************************************************)
\* C33: process_agent issues one submit request per record whatever the
\* request meets; a submit answered by an HTTP error status or ended by a
\* network exception is not repeated and gives an Outcome with status
\* error and ark_status failed.
C33_SubmitNotRetried ==
    (hx.fn = "update_agent_record" /\ hx.pc \in {"submitted", "ended"}) =>
        /\ hx.posts = 1
        /\ (hx.pc = "ended"
               /\ hx.answers[1] \in {"400", "409", "500", "neterr", "lost"}) =>
              /\ hx.outcome.status = "error"
              /\ hx.outcome.ark_status = "failed"

C33_Witness ==
    /\ hx.fn = "update_agent_record"
    /\ hx.pc = "ended"
    /\ hx.answers = <<"neterr", "200", "200">>
    /\ hx.posts = 1
    /\ hx.outcome.ark_status = "failed"

\* C36: an Outcome with status error means that the remote system stored
\* no record submitted by that call of process_agent.
C36_ErrorMeansNotStored ==
    (hx.fn = "update_agent_record" /\ hx.pc = "ended"
        /\ hx.outcome.status = "error") => hx.stored = 0

(***************************************************************************)
(* The checkpoint a completed run leaves behind.                           *)
(***************************************************************************)
\* C34: when a run has completed all its batches, the checkpoint on disk
\* holds the index of the last input record, start_index + N - 1.
C34_FinalCheckpoint ==
    (pc = "done" /\ total_records >= 1) =>
        /\ load_checkpoint(ckptFile).loaded
        /\ load_checkpoint(ckptFile).last_processed_index
              = start_index + total_records - 1

\* C35: the index of a checkpoint is the offset, in the full input, of the
\* last record processed when it was written, also in a run started with
\* --start-index, so that a run resuming from it over the full input
\* starts at the record after that one.
C35_CheckpointIndexIsInputOffset ==
    (hx.fn = "main" /\ hx.checkpoint.loaded) =>
        /\ hx.checkpoint.last_processed_index = hx.covered
        /\ StartIndex(TRUE, hx.checkpoint) = hx.covered + 1

(***************************************************************************)
(* Comparison verdict of a record that was patched.                        *)
(***************************************************************************)
\* C37: an Outcome with ark_status added carries the verdict test_only,
\* no_snac, no_test_data or error, never match, mismatch or prod_only: the
\* comparison reads the record as it was fetched, which has no snac entry.
C37_AddedNeverMatches ==
    /\ \A e \in hist.events :
          e.outcome.ark_status = "added" =>
              e.outcome.compare_status
                  \in {"test_only", "no_snac", "no_test_data", "error"}
    /\ \A o \in Offsets :
          (fut[o].st \in {"posting", "done"} /\ fut[o].outcome.ark_status = "added") =>
              fut[o].outcome.compare_status
                  \in {"test_only", "no_snac", "no_test_data", "error"}

C37_Witness ==
    /\ pc = "done"
    /\ \E e \in hist.events :
          /\ e.outcome.ark_status = "added"
          /\ e.outcome.status = "no_update"
          /\ e.outcome.compare_status = "no_snac"
    /\ \E e \in hist.events :
          /\ e.outcome.ark_status = "added"
          /\ e.outcome.compare_status = "no_test_data"

(***************************************************************************)
(* Two rows of one batch that name the same record.                        *)
(***************************************************************************)
\* C38: whatever the interleaving of the workers of a batch, also when two
\* of them fetch, patch and submit the same record, no remote record has
\* more than one identifier entry of source snac.
C38_ConcurrentSameKey ==
    \A k \in Keys : SnacCount(remote[k].data) <= 1

\* Both workers fetched the record before either submitted it; one has
\* submitted, the other is about to.
C38_Witness ==
    /\ pc = "wait"
    /\ Len(rows) = 2
    /\ RowKey(0) = RowKey(1)
    /\ fut[0].st = "posting"
    /\ fut[1].st = "done"
    /\ fut[1].outcome.ark_status = "added"
    /\ fut[1].outcome.status = "success"
    /\ SnacCount(remote[RowKey(0)].data) = 1
    /\ SnacCount(fut[0].updated_data) = 1

(***************************************************************************)
(* A checkpoint write that fails.                                          *)
(***************************************************************************)
\* A checkpoint write of the current run, completed or failed, in batch b.
Attempted(b) ==
    \/ \E i \in 1..Len(hist.writes) :
          hist.writes[i].run = run /\ hist.writes[i].batch_num = b
    \/ \E i \in 1..Len(hist.failed) :
          hist.failed[i].run = run /\ hist.failed[i].batch_num = b

\* C39: a checkpoint write that fails does not abort the run: the step in
\* which it fails leaves the results as they are and moves on to the next
\* batch; every batch is still processed and folded, and a write is
\* attempted at every later cadence point.
C39_SaveFailureTolerated ==
    /\ [][(pc = "saving" /\ Len(hist'.failed) > Len(hist.failed)) =>
              /\ results' = results
              /\ pc' = "loop" => batch_num' = batch_num + 1
              /\ pc' # "loop" => (pc' = "aborted" /\ RefreshDue(batch_num, cfg.no_update))]_vars
    /\ [](pc = "done" => Len(results.details) = Len(rows))
    /\ [](pc \in {"loop", "wait", "saving", "done"} =>
            \A b \in 0..(batch_num - 1) :
                b % cfg.checkpoint_interval = 0 => Attempted(b))

C39_Witness ==
    /\ pc = "done"
    /\ Len(rows) = 2
    /\ cfg.batch_size = 1
    /\ Len(results.details) = 2
    /\ hist.failed = <<[run |-> 1, batch_num |-> 0]>>
    /\ Len(hist.writes) = 1
    /\ hist.writes[1].batch_num = 1
    /\ load_checkpoint(ckptFile).last_processed_index = 1

(***************************************************************************)
(* Batches and termination.                                                *)
(***************************************************************************)
\* ceil(n / b)
CeilDiv(n, b) == (n + b - 1) \div b

\* C40: a run over N >= 1 records with batch size B dispatches ceil(N / B)
\* batches, every input offset from the starting offset on is in exactly
\* one of them and is processed once, and a run whose session acquisition
\* succeeded reaches the final summary.
C40_BatchesAndTermination ==
    /\ [](pc \in {"loop", "wait", "saving", "done"} =>
            /\ batch_num <= CeilDiv(total_records, cfg.batch_size)
            /\ pc \in {"wait", "saving"} =>
                  batch_num < CeilDiv(total_records, cfg.batch_size)
            /\ pc = "done" => batch_num = CeilDiv(total_records, cfg.batch_size)
            /\ \A o \in start_index..(Len(rows) - 1) :
                  Cardinality({b \in 0..(CeilDiv(total_records, cfg.batch_size) - 1) :
                                  o \in BatchOffsets(b)}) = 1
            /\ pc = "done" =>
                  \A o \in start_index..(Len(rows) - 1) :
                      Cardinality({e \in hist.events : e.run = run /\ e.offset = o}) = 1)
    /\ (pc = "loop") ~> (pc = "done")

C40_Witness ==
    /\ pc = "done"
    /\ Len(rows) = 1
    /\ cfg.batch_size = 2
    /\ batch_num = 1
    /\ Len(results.details) = 1

====
